---- MODULE Spec2Model ----
(***************************************************************************)
(* Analytics and alerting pipeline of the textile-mill dashboard:          *)
(* alerts_engine.py (detect_anomalies, detect_spike, detect_drop,          *)
(* generate_alerts, prioritize_alerts, create_banner_message),             *)
(* data_processing.py (transform_production_data, transform_supplier_data, *)
(* calculate_system_health, calculate_risk_index), model_inference.py      *)
(* (perform_root_cause_analysis, forecast_metrics) and utils.py            *)
(* (simulate_what_if).                                                     *)
(*                                                                         *)
(* A DataFrame is a record [cols, rows]: the set of column names and the   *)
(* sequence of rows, each row a function from cols to values.  Floating    *)
(* point numbers are modelled as exact rationals <<numerator, denominator>>*)
(* with a positive denominator; values rounded to one decimal are integer  *)
(* numbers of tenths.                                                      *)
(***************************************************************************)
EXTENDS Integers, Sequences, FiniteSets, TLC

VARIABLES prod_df, sup_df, sensitivity, alerts, raised, banner, prioritized,
          reprioritized, health_score, risk_index, pc,
          column, anomaly_mask, spike_mask, drop_mask,
          threshold, root_causes,
          scenario, simulation,
          prod_df_raw, sup_df_raw,
          horizon, forecast_df,
          live_mode, clicked, invoked, surfaced

\* The arguments and results of the detectors, the root-cause analysis, the
\* simulator, the normalizer and the forecast.
detection == <<column, anomaly_mask, spike_mask, drop_mask>>

analysis == <<threshold, root_causes>>

whatif == <<scenario, simulation>>

raw == <<prod_df_raw, sup_df_raw>>

forecasting == <<horizon, forecast_df>>

\* One run of the dashboard script: the live-monitoring toggle, the button
\* whose click started the run, the functions called so far and the notice
\* shown to the operator.
cycle == <<live_mode, clicked, invoked, surfaced>>

vars == <<prod_df, sup_df, sensitivity, alerts, raised, banner, prioritized,
          reprioritized, health_score, risk_index, pc,
          detection, analysis, whatif, raw, forecasting, cycle>>

-----------------------------------------------------------------------------
(* Exact rational arithmetic standing for Python floats.                   *)

R(n) == <<n, 1>>

RAdd(a, b) == <<a[1] * b[2] + b[1] * a[2], a[2] * b[2]>>

RSub(a, b) == <<a[1] * b[2] - b[1] * a[2], a[2] * b[2]>>

RMul(a, b) == <<a[1] * b[1], a[2] * b[2]>>

RLt(a, b) == a[1] * b[2] < b[1] * a[2]

RLe(a, b) == a[1] * b[2] <= b[1] * a[2]

RGt(a, b) == RLt(b, a)

REq(a, b) == a[1] * b[2] = b[1] * a[2]

\* Python max(a, b) and min(a, b): the first argument wins ties.
RMax(a, b) == IF RGt(b, a) THEN b ELSE a

RMin(a, b) == IF RLt(b, a) THEN b ELSE a

RAbs(a) == IF a[1] < 0 THEN <<-a[1], a[2]>> ELSE a

RECURSIVE GCD(_, _)
GCD(a, b) == IF b = 0 THEN a ELSE GCD(b, a % b)

\* The same number in lowest terms.
RNorm(a) ==
    LET g == GCD(IF a[1] < 0 THEN -a[1] ELSE a[1], a[2])
    IN  <<a[1] \div g, a[2] \div g>>

\* round(x, 1) and f"{x:.1f}": the nearest tenth, ties to even, as an
\* integer number of tenths.
Round1(a) ==
    LET n == 10 * RNorm(a)[1]
        d == RNorm(a)[2]
        q == (2 * n + d) \div (2 * d)
    IN  IF (2 * n + d) % (2 * d) = 0 /\ q % 2 = 1 THEN q - 1 ELSE q

-----------------------------------------------------------------------------
(* DataFrame and Series primitives.                                        *)

\* DataFrame.empty: no columns or no rows.
Empty(df) == df.cols = {} \/ Len(df.rows) = 0

\* df[column] as a sequence of values.
Column(df, col) == [i \in 1..Len(df.rows) |-> df.rows[i][col]]

\* df[mask]: the rows whose mask entry is TRUE, in order.
RECURSIVE Positions(_, _)
Positions(mask, i) ==
    IF i > Len(mask) THEN <<>>
    ELSE (IF mask[i] THEN <<i>> ELSE <<>>) \o Positions(mask, i + 1)

Where(df, mask) ==
    LET p == Positions(mask, 1)
    IN  [cols |-> df.cols, rows |-> [k \in 1..Len(p) |-> df.rows[p[k]]]]

RECURSIVE SumSeq(_)
SumSeq(s) == IF s = <<>> THEN 0 ELSE Head(s) + SumSeq(Tail(s))

RECURSIVE MaxSeq(_)
MaxSeq(s) ==
    IF Len(s) = 1 THEN s[1]
    ELSE LET m == MaxSeq(Tail(s)) IN IF Head(s) >= m THEN Head(s) ELSE m

\* Series.mean() of a non-empty series.
Mean(s) == <<SumSeq(s), Len(s)>>

\* Series.std() squared (sample variance, ddof = 1) of a series of
\* at least two values.
Variance(s) ==
    LET n == Len(s)
        sq == [i \in 1..n |-> s[i] * s[i]]
    IN  <<n * SumSeq(sq) - SumSeq(s) * SumSeq(s), n * (n - 1)>>

\* Series.unique(): distinct values in order of first appearance.
RECURSIVE Unique(_)
Unique(s) ==
    IF s = <<>> THEN <<>>
    ELSE LET u == Unique(SubSeq(s, 1, Len(s) - 1))
             x == s[Len(s)]
         IN  IF \E i \in 1..Len(u) : u[i] = x THEN u ELSE Append(u, x)

\* DataFrame.head(n) and DataFrame.tail(n).
HeadRows(df, n) ==
    [cols |-> df.cols,
     rows |-> SubSeq(df.rows, 1, IF Len(df.rows) < n THEN Len(df.rows) ELSE n)]

TailRows(df, n) ==
    [cols |-> df.cols,
     rows |-> SubSeq(df.rows,
                     IF Len(df.rows) < n THEN 1 ELSE Len(df.rows) - n + 1,
                     Len(df.rows))]

\* x > mean + sensitivity * std, decided exactly from the variance.
AboveThreshold(x, mean, sens, var) ==
    LET lhs == RSub(R(x), mean)
        lhs2 == RMul(lhs, lhs)
        rhs2 == RMul(RMul(sens, sens), var)
    IN  IF sens[1] >= 0
        THEN lhs[1] > 0 /\ RGt(lhs2, rhs2)
        ELSE lhs[1] > 0 \/ RLt(lhs2, rhs2)

\* x < mean - sensitivity * std.
BelowThreshold(x, mean, sens, var) ==
    LET lhs == RSub(mean, R(x))
        lhs2 == RMul(lhs, lhs)
        rhs2 == RMul(RMul(sens, sens), var)
    IN  IF sens[1] >= 0
        THEN lhs[1] > 0 /\ RGt(lhs2, rhs2)
        ELSE lhs[1] > 0 \/ RLt(lhs2, rhs2)

\* abs((x - mean) / std) > sensitivity, for std > 0.
ZScoreAbove(x, mean, sens, var) ==
    LET lhs == RSub(R(x), mean)
        lhs2 == RMul(lhs, lhs)
        rhs2 == RMul(RMul(sens, sens), var)
    IN  sens[1] < 0 \/ RGt(lhs2, rhs2)

-----------------------------------------------------------------------------
(* alerts_engine.py                                                        *)

\* detect_spike: one boolean per row; the empty series for an empty table
\* or an absent column.  With a single row the sample standard deviation is
\* NaN, which is not == 0 and makes every comparison False.
detect_spike(df, col, sens) ==
    IF Empty(df) \/ col \notin df.cols THEN <<>>
    ELSE LET series == Column(df, col)
             n == Len(series)
             mean == Mean(series)
             var == Variance(series)
         IN  IF n = 1 THEN [i \in 1..n |-> FALSE]
             ELSE IF var[1] = 0 THEN [i \in 1..n |-> FALSE]
             ELSE [i \in 1..n |-> AboveThreshold(series[i], mean, sens, var)]

\* detect_anomalies: the Z-score test, with the same guards.
detect_anomalies(df, col, sens) ==
    IF Empty(df) \/ col \notin df.cols THEN <<>>
    ELSE LET series == Column(df, col)
             n == Len(series)
             mean == Mean(series)
             var == Variance(series)
         IN  IF n = 1 THEN [i \in 1..n |-> FALSE]
             ELSE IF var[1] = 0 THEN [i \in 1..n |-> FALSE]
             ELSE [i \in 1..n |-> ZScoreAbove(series[i], mean, sens, var)]

\* Mutant: a zero standard deviation returns the empty series of the
\* first guard.
detect_drop_empty(df, col, sens) ==
    IF Empty(df) \/ col \notin df.cols THEN <<>>
    ELSE LET series == Column(df, col)
             n == Len(series)
             mean == Mean(series)
             var == Variance(series)
         IN  IF n = 1 THEN [i \in 1..n |-> FALSE]
             ELSE IF var[1] = 0 THEN <<>>
             ELSE [i \in 1..n |-> BelowThreshold(series[i], mean, sens, var)]

\* detect_drop: rows below mean - sensitivity * std.
detect_drop(df, col, sens) ==
    IF Empty(df) \/ col \notin df.cols THEN <<>>
    ELSE LET series == Column(df, col)
             n == Len(series)
             mean == Mean(series)
             var == Variance(series)
         IN  IF n = 1 THEN [i \in 1..n |-> FALSE]
             ELSE IF var[1] = 0 THEN [i \in 1..n |-> FALSE]
             ELSE [i \in 1..n |-> BelowThreshold(series[i], mean, sens, var)]

\* Series.any()
AnyTrue(mask) == \E i \in 1..Len(mask) : mask[i]

\* A formatted message: the f-string's text with the values it embeds.
Message(text, value, names) == [text |-> text, value |-> value, names |-> names]

LowEfficiencyLimit == 70

CriticalTemperature == 40

SupplyWarningMax == 2

TrendWindow == 10

TrendDropLimit == 10

\* Rule 1: one alert per machine that has a record with efficiency < 70,
\* reporting the machine's mean efficiency.
LowEfficiencyMachines(df) ==
    Unique(Column(Where(df, [i \in 1..Len(df.rows) |->
                                df.rows[i]["efficiency"] < LowEfficiencyLimit]),
                  "machine_id"))

LowEfficiencyAlert(df, machine) ==
    LET machine_data == Where(df, [i \in 1..Len(df.rows) |->
                                      df.rows[i]["machine_id"] = machine])
        avg_eff == Mean(Column(machine_data, "efficiency"))
    IN  [severity |-> "CRITICAL",
         category |-> "Production",
         message |-> Message("Machine efficiency critically low at",
                             Round1(avg_eff), <<machine>>),
         recommendation |-> Message("Immediate inspection required for", 0,
                                    <<machine>>),
         focus_area |-> "Machine Maintenance",
         priority |-> 1]

LowEfficiencyAlerts(df) ==
    LET low_eff_machines == LowEfficiencyMachines(df)
    IN  [k \in 1..Len(low_eff_machines) |->
            LowEfficiencyAlert(df, low_eff_machines[k])]

\* Rule 2: one alert when detect_spike flags a temperature.
\* Mutant: exactly 40 degrees counts as critical.
TemperatureSeverity_inclusive(max_temp) ==
    IF max_temp >= CriticalTemperature THEN "CRITICAL" ELSE "WARNING"

TemperatureSeverity(max_temp) ==
    IF max_temp > CriticalTemperature THEN "CRITICAL" ELSE "WARNING"

TemperaturePriority(max_temp) ==
    IF max_temp > CriticalTemperature THEN 1 ELSE 2

TemperatureAlerts(df, sens) ==
    LET high_temp == detect_spike(df, "temperature_c", sens)
    IN  IF ~AnyTrue(high_temp) THEN <<>>
        ELSE LET flagged == Where(df, high_temp)
                 max_temp == MaxSeq(Column(flagged, "temperature_c"))
                 affected_machines == Unique(Column(flagged, "machine_id"))
             IN  <<[severity |-> TemperatureSeverity(max_temp),
                    category |-> "Safety",
                    message |-> Message("Temperature spike detected",
                                        Round1(R(max_temp)), affected_machines),
                    recommendation |-> Message("Activate cooling systems", 0, <<>>),
                    focus_area |-> "Cooling Systems",
                    priority |-> TemperaturePriority(max_temp)]>>

\* Rule 3: one WARNING when detect_spike flags a downtime.
DowntimeAlerts(df, sens) ==
    LET downtime_anomalies == detect_spike(df, "downtime_minutes", sens)
    IN  IF ~AnyTrue(downtime_anomalies) THEN <<>>
        ELSE LET avg_downtime ==
                     Mean(Column(Where(df, downtime_anomalies),
                                 "downtime_minutes"))
             IN  <<[severity |-> "WARNING",
                    category |-> "Operational",
                    message |-> Message("Abnormal downtime detected",
                                        Round1(avg_downtime), <<>>),
                    recommendation |-> Message("Investigate recent maintenance", 0, <<>>),
                    focus_area |-> "Downtime Reduction",
                    priority |-> 2]>>

\* Rule 4: one alert when some supplier row is Delayed.
DelayedRows(sup) ==
    Where(sup, [i \in 1..Len(sup.rows) |-> sup.rows[i]["supply_risk"] = "Delayed"])

\* Mutant: the boundary of two delayed deliveries is off by one.
SupplySeverity_strict(delayed_count) ==
    IF delayed_count < SupplyWarningMax THEN "WARNING" ELSE "CRITICAL"

SupplySeverity(delayed_count) ==
    IF delayed_count <= SupplyWarningMax THEN "WARNING" ELSE "CRITICAL"

\* Mutant: the supply alert always has priority 2.
SupplyPriority_warning(delayed_count) ==
    IF delayed_count <= SupplyWarningMax THEN 2 ELSE 2

SupplyPriority(delayed_count) ==
    IF delayed_count <= SupplyWarningMax THEN 2 ELSE 1

SupplyRuleApplies(sup) ==
    /\ ~Empty(sup)
    /\ "supply_risk" \in sup.cols
    /\ Len(DelayedRows(sup).rows) > 0

SupplyAlerts(sup) ==
    IF ~SupplyRuleApplies(sup) THEN <<>>
    ELSE LET delayed == DelayedRows(sup)
             delayed_count == Len(delayed.rows)
             delayed_suppliers == Unique(Column(delayed, "supplier_id"))
         IN  <<[severity |-> SupplySeverity(delayed_count),
                category |-> "Supply Chain",
                message |-> Message("delayed deliveries from",
                                    delayed_count, delayed_suppliers),
                recommendation |-> Message("Contact suppliers", 0, <<>>),
                focus_area |-> "Supplier Lead Time",
                priority |-> SupplyPriority(delayed_count)]>>

\* Mutant: a drop of exactly 10 points raises the alert.
TrendAlerts_inclusive(df) ==
    IF Len(df.rows) < TrendWindow THEN <<>>
    ELSE LET recent_eff == Mean(Column(TailRows(df, TrendWindow), "efficiency"))
             older_eff == Mean(Column(HeadRows(df, TrendWindow), "efficiency"))
             eff_drop == RSub(older_eff, recent_eff)
         IN  IF RLt(eff_drop, R(TrendDropLimit)) THEN <<>>
             ELSE <<[severity |-> "WARNING",
                     category |-> "Trend Analysis",
                     message |-> Message("Efficiency declining trend detected",
                                         Round1(eff_drop), <<>>),
                     recommendation |-> Message("Conduct comprehensive system audit", 0, <<>>),
                     focus_area |-> "System Performance",
                     priority |-> 2]>>

\* Rule 5: one WARNING when the mean efficiency of the first 10 rows
\* exceeds that of the last 10 rows by more than 10.
TrendAlerts(df) ==
    IF Len(df.rows) < TrendWindow THEN <<>>
    ELSE LET recent_eff == Mean(Column(TailRows(df, TrendWindow), "efficiency"))
             older_eff == Mean(Column(HeadRows(df, TrendWindow), "efficiency"))
             eff_drop == RSub(older_eff, recent_eff)
         IN  IF ~RGt(eff_drop, R(TrendDropLimit)) THEN <<>>
             ELSE <<[severity |-> "WARNING",
                     category |-> "Trend Analysis",
                     message |-> Message("Efficiency declining trend detected",
                                         Round1(eff_drop), <<>>),
                     recommendation |-> Message("Conduct comprehensive system audit", 0, <<>>),
                     focus_area |-> "System Performance",
                     priority |-> 2]>>

\* Python's comparison of two key tuples of equal length.
KeyLess(k1, k2) ==
    \E i \in 1..Len(k1) : k1[i] < k2[i] /\ \A j \in 1..(i - 1) : k1[j] = k2[j]

\* sorted(seq, key=...): a stable sort; keys[i] is the key of seq[i].
RECURSIVE InsertIndex(_, _, _)
InsertIndex(order, i, keys) ==
    IF order = <<>> THEN <<i>>
    ELSE IF KeyLess(keys[i], keys[order[Len(order)]])
         THEN Append(InsertIndex(SubSeq(order, 1, Len(order) - 1), i, keys),
                     order[Len(order)])
         ELSE Append(order, i)

RECURSIVE SortedIndexes(_, _)
SortedIndexes(keys, n) ==
    IF n = 0 THEN <<>> ELSE InsertIndex(SortedIndexes(keys, n - 1), n, keys)

SortedBy(seq, keys) ==
    LET order == SortedIndexes(keys, Len(seq))
    IN  [k \in 1..Len(seq) |-> seq[order[k]]]

\* key=lambda x: x['priority']
PriorityKey(a) == <<a["priority"]>>

\* Mutant: the final sort is left out.
SortedByPriority_unsorted(emitted) == emitted

SortedByPriority(emitted) ==
    SortedBy(emitted, [i \in 1..Len(emitted) |-> PriorityKey(emitted[i])])

\* The alerts in rule order, before the final sort.
EmittedAlerts(prod, sup, sens) ==
    LowEfficiencyAlerts(prod) \o TemperatureAlerts(prod, sens)
        \o DowntimeAlerts(prod, sens) \o SupplyAlerts(sup) \o TrendAlerts(prod)

\* The column lookups of generate_alerts that are not guarded: they raise
\* KeyError when the column is absent.
GenerateAlertsRaises(prod, sup) ==
    /\ ~Empty(prod)
    /\ \/ "efficiency" \notin prod.cols
       \/ "machine_id" \notin prod.cols
       \/ SupplyRuleApplies(sup) /\ "supplier_id" \notin sup.cols

generate_alerts(prod, sup, sens) ==
    IF Empty(prod) THEN <<>>
    ELSE SortedByPriority(EmittedAlerts(prod, sup, sens))

-----------------------------------------------------------------------------
\* dict.get(key, default)
Get(a, key, default) == IF key \in DOMAIN a THEN a[key] ELSE default

\* Severity strings in Python's string order.
StringOrder == <<"CRITICAL", "INFO", "SAFE", "WARNING">>

StringRank(s) == CHOOSE i \in 1..Len(StringOrder) : StringOrder[i] = s

\* Mutant: the severity is left out of the sort key.
PrioritizeKey_priorityOnly(a) == <<Get(a, "priority", 99)>>

\* key=lambda x: (x.get('priority', 99), x.get('severity', 'INFO'))
PrioritizeKey(a) ==
    <<Get(a, "priority", 99), StringRank(Get(a, "severity", "INFO"))>>

prioritize_alerts(list) ==
    SortedBy(list, [i \in 1..Len(list) |-> PrioritizeKey(list[i])])

\* [a for a in alerts if a.get('severity') == 'CRITICAL']
RECURSIVE CriticalAlerts(_)
CriticalAlerts(list) ==
    IF list = <<>> THEN <<>>
    ELSE (IF "severity" \in DOMAIN Head(list) /\ Head(list)["severity"] = "CRITICAL"
          THEN <<Head(list)>> ELSE <<>>) \o CriticalAlerts(Tail(list))

\* The banner as its three lines; the empty string is the empty sequence.
BannerHeadline(count) ==
    [text |-> "IMMEDIATE ATTENTION REQUIRED: CRITICAL ISSUE",
     count |-> count,
     plural |-> count > 1]

\* Mutant: the last critical alert is taken as the primary focus.
BannerTopAlert_last(critical_alerts) == critical_alerts[Len(critical_alerts)]

BannerTopAlert(critical_alerts) == critical_alerts[1]

create_banner_message(list) ==
    LET critical_alerts == CriticalAlerts(list)
    IN  IF critical_alerts = <<>> THEN <<>>
        ELSE LET top_alert == BannerTopAlert(critical_alerts)
                 count == Len(critical_alerts)
                 focus == Get(top_alert, "focus_area", "System Health")
                 reason == Get(top_alert, "message",
                               Message("Multiple critical issues detected", 0, <<>>))
             IN  <<BannerHeadline(count),
                   [text |-> "PRIMARY FOCUS", focus |-> focus],
                   [text |-> "REASON", reason |-> reason]>>

-----------------------------------------------------------------------------
(* data_processing.py                                                      *)

IdealTemperature == <<65, 2>>

RiskTemperature == 35

DefaultHealth == 500

DefaultRisk == 300

Hundred == R(100)

\* Number of rows whose supply_risk equals the given status.
CountStatus(sup, status) ==
    Len(Positions([i \in 1..Len(sup.rows) |-> sup.rows[i]["supply_risk"] = status], 1))

RECURSIVE RSum(_)
RSum(s) ==
    IF s = <<>> THEN R(0) ELSE RNorm(RAdd(RNorm(Head(s)), RSum(Tail(s))))

EfficiencyComponent(prod) ==
    IF ~Empty(prod) /\ "efficiency" \in prod.cols
    THEN LET avg_efficiency == Mean(Column(prod, "efficiency"))
             eff_score == RMin(RMax(avg_efficiency, R(0)), Hundred)
         IN  <<RMul(eff_score, <<2, 5>>)>>
    ELSE <<>>

TemperatureComponent(prod) ==
    IF ~Empty(prod) /\ "temperature_c" \in prod.cols
    THEN LET temps == Column(prod, "temperature_c")
             temp_deviation == RAbs(RSub(Mean(temps), IdealTemperature))
             temp_score == RMax(RSub(Hundred, RMul(temp_deviation, R(10))), R(0))
         IN  <<RMul(temp_score, <<1, 5>>)>>
    ELSE <<>>

\* Mutant: the downtime score is not floored at 0.
DowntimeScore_unfloored(avg_downtime) ==
    RSub(Hundred, RMul(avg_downtime, R(20)))

DowntimeScore(avg_downtime) ==
    RMax(RSub(Hundred, RMul(avg_downtime, R(20))), R(0))

DowntimeComponent(prod) ==
    IF ~Empty(prod) /\ "downtime_minutes" \in prod.cols
    THEN LET avg_downtime == Mean(Column(prod, "downtime_minutes"))
         IN  <<RMul(DowntimeScore(avg_downtime), <<1, 5>>)>>
    ELSE <<>>

SupplyComponent(sup) ==
    IF ~Empty(sup) /\ "supply_risk" \in sup.cols
    THEN LET on_time_count == CountStatus(sup, "On Time")
             total_count == Len(sup.rows)
             supply_score == IF total_count > 0
                             THEN RMul(<<on_time_count, total_count>>, Hundred)
                             ELSE R(50)
         IN  <<RMul(supply_score, <<1, 5>>)>>
    ELSE <<>>

\* The health score in tenths.
calculate_system_health(prod, sup) ==
    LET health_components ==
            EfficiencyComponent(prod) \o TemperatureComponent(prod)
                \o DowntimeComponent(prod) \o SupplyComponent(sup)
    IN  IF health_components = <<>> THEN DefaultHealth
        ELSE Round1(RSum(health_components))

EfficiencyRisk(prod) ==
    IF ~Empty(prod) /\ "efficiency" \in prod.cols
    THEN LET avg_efficiency == Mean(Column(prod, "efficiency"))
             eff_risk == RMax(RSub(Hundred, avg_efficiency), R(0))
         IN  <<RMul(eff_risk, <<3, 10>>)>>
    ELSE <<>>

\* Mutant: the temperature risk is not capped at 100.
TemperatureRisk_uncapped(prod) ==
    IF ~Empty(prod) /\ "temperature_c" \in prod.cols
    THEN LET max_temp == MaxSeq(Column(prod, "temperature_c"))
             temp_risk == RMax(RMul(R(max_temp - RiskTemperature), R(20)), R(0))
         IN  <<RMul(temp_risk, <<3, 10>>)>>
    ELSE <<>>

TemperatureRisk(prod) ==
    IF ~Empty(prod) /\ "temperature_c" \in prod.cols
    THEN LET max_temp == MaxSeq(Column(prod, "temperature_c"))
             temp_risk == RMax(RMul(R(max_temp - RiskTemperature), R(20)), R(0))
         IN  <<RMul(RMin(temp_risk, Hundred), <<3, 10>>)>>
    ELSE <<>>

SupplyRisk(sup) ==
    IF ~Empty(sup) /\ "supply_risk" \in sup.cols
    THEN LET delayed_pct ==
                 RMul(<<CountStatus(sup, "Delayed"), Len(sup.rows)>>, Hundred)
         IN  <<RMul(delayed_pct, <<2, 5>>)>>
    ELSE <<>>

\* Mutant: the sum is not clamped.
ClampRisk_none(total) == total

\* min(sum(risk_factors), 100)
ClampRisk(total) == RMin(total, Hundred)

\* The risk index in tenths.
calculate_risk_index(prod, sup) ==
    LET risk_factors == EfficiencyRisk(prod) \o TemperatureRisk(prod) \o SupplyRisk(sup)
    IN  IF risk_factors = <<>> THEN DefaultRisk
        ELSE Round1(ClampRisk(RSum(risk_factors)))

-----------------------------------------------------------------------------
(* Inputs.                                                                 *)

MaxRows == 3

MaxSupRows == 3

MaxScoreRows == 2

MaxMissingRows == 1

MaxAlerts == 3

Seqs(S, n) == UNION {[1..k -> S] : k \in 0..n}

\* Each row repeated k times, in order.
Repeat(rows, k) == [i \in 1..(Len(rows) * k) |-> rows[((i - 1) \div k) + 1]]

\* The rows restricted to the columns of the table.
Frame(cols, rows) ==
    [cols |-> cols,
     rows |-> [i \in 1..Len(rows) |-> [c \in cols |-> rows[i][c]]]]

\* pd.DataFrame([]): no rows and no columns.
NoData == [cols |-> {}, rows |-> <<>>]

ProdCols == {"machine_id", "efficiency", "temperature_c", "downtime_minutes"}

SupCols == {"supplier_id", "supply_risk"}

ProdRow(m, e, t, d) ==
    [machine_id |-> m, efficiency |-> e, temperature_c |-> t, downtime_minutes |-> d]

SupRow(s, r) == [supplier_id |-> s, supply_risk |-> r]

ProdKinds ==
    {ProdRow("M1", 60, 30, 0), ProdRow("M1", 80, 30, 0),
     ProdRow("M2", 100, 40, 0), ProdRow("M2", 100, 41, 10)}

ScoreKinds ==
    {ProdRow("M1", 150, 32, -5), ProdRow("M1", 100, 33, -5),
     ProdRow("M2", -50, 1000, 10), ProdRow("M2", 80, 36, 0),
     ProdRow("M2", 60, 30, 1)}

SupKinds == {SupRow("S1", "Delayed"), SupRow("S2", "On Time")}

Reps == {1, 5}

Sensitivities == {<<1, 1>>, <<3, 2>>}

\* Externally held alerts: any priorities and severities, keys may be absent.
AlertKinds ==
    {[severity |-> "CRITICAL", priority |-> 1, focus_area |-> "A",
      message |-> Message("a", 0, <<>>)],
     [severity |-> "CRITICAL", priority |-> 1, focus_area |-> "B",
      message |-> Message("b", 0, <<>>)],
     [severity |-> "CRITICAL", priority |-> 2, focus_area |-> "C",
      message |-> Message("c", 0, <<>>)],
     [severity |-> "WARNING", priority |-> 1, focus_area |-> "D",
      message |-> Message("d", 0, <<>>)],
     [severity |-> "WARNING", priority |-> 2, focus_area |-> "E",
      message |-> Message("e", 0, <<>>)],
     [priority |-> 1, focus_area |-> "F", message |-> Message("f", 0, <<>>)],
     [severity |-> "CRITICAL", focus_area |-> "G", message |-> Message("g", 0, <<>>)],
     [severity |-> "CRITICAL", priority |-> 1]}

Idle ==
    /\ alerts = <<>>
    /\ raised = "none"
    /\ banner = <<>>
    /\ prioritized = <<>>
    /\ reprioritized = <<>>
    /\ health_score = DefaultHealth
    /\ risk_index = DefaultRisk

IdleDetection ==
    /\ column = "temperature_c"
    /\ anomaly_mask = <<>>
    /\ spike_mask = <<>>
    /\ drop_mask = <<>>

IdleAnalysis ==
    /\ threshold = R(75)
    /\ root_causes = <<>>

NoScenario ==
    [current_health |-> R(0), current_risk |-> R(0), efficiency_change |-> R(0),
     temp_change |-> R(0), supply_improvement |-> R(0)]

NoSimulation ==
    [projected_health |-> 0, projected_risk |-> 0, health_change |-> 0,
     risk_change |-> 0, cost_impact |-> 0]

IdleWhatIf ==
    /\ scenario = NoScenario
    /\ simulation = NoSimulation

IdleRaw ==
    /\ prod_df_raw = NoData
    /\ sup_df_raw = NoData

IdleForecasting ==
    /\ horizon = 0
    /\ forecast_df = <<>>

IdleCycle ==
    /\ live_mode = FALSE
    /\ clicked = "none"
    /\ invoked = {}
    /\ surfaced = "none"

\* Normalized tables with every column present.
Init ==
    /\ \E rows \in Seqs(ProdKinds, MaxRows), k \in Reps :
           prod_df = IF rows = <<>> THEN NoData ELSE Frame(ProdCols, Repeat(rows, k))
    /\ \E rows \in Seqs(SupKinds, MaxSupRows) :
           sup_df = IF rows = <<>> THEN NoData ELSE Frame(SupCols, rows)
    /\ sensitivity \in Sensitivities
    /\ Idle
    /\ IdleDetection /\ IdleAnalysis /\ IdleWhatIf /\ IdleRaw /\ IdleForecasting
    /\ IdleCycle
    /\ pc = "alerts"

\* Tables with extreme values.
InitScore ==
    /\ \E rows \in Seqs(ScoreKinds, MaxScoreRows) :
           prod_df = IF rows = <<>> THEN NoData ELSE Frame(ProdCols, rows)
    /\ \E rows \in Seqs(SupKinds, MaxSupRows) :
           sup_df = IF rows = <<>> THEN NoData ELSE Frame(SupCols, rows)
    /\ sensitivity = <<3, 2>>
    /\ Idle
    /\ IdleDetection /\ IdleAnalysis /\ IdleWhatIf /\ IdleRaw /\ IdleForecasting
    /\ IdleCycle
    /\ pc = "health"

\* Tables that are empty or lack one column.
InitMissing ==
    /\ \E rows \in Seqs(ProdKinds, MaxMissingRows), c \in ProdCols \cup {"none"} :
           prod_df \in {NoData, Frame(ProdCols \ {c}, rows)}
    /\ \E rows \in Seqs(SupKinds, MaxMissingRows), c \in SupCols \cup {"none"} :
           sup_df \in {NoData, Frame(SupCols \ {c}, rows)}
    /\ sensitivity = <<3, 2>>
    /\ Idle
    /\ IdleDetection /\ IdleAnalysis /\ IdleWhatIf /\ IdleRaw /\ IdleForecasting
    /\ IdleCycle
    /\ pc = "health"

\* An alert list held by the caller.
InitLists ==
    /\ prod_df = NoData
    /\ sup_df = NoData
    /\ sensitivity = <<3, 2>>
    /\ alerts \in Seqs(AlertKinds, MaxAlerts)
    /\ raised = "none"
    /\ banner = <<>>
    /\ prioritized = <<>>
    /\ reprioritized = <<>>
    /\ health_score = DefaultHealth
    /\ risk_index = DefaultRisk
    /\ IdleDetection /\ IdleAnalysis /\ IdleWhatIf /\ IdleRaw /\ IdleForecasting
    /\ IdleCycle
    /\ pc = "banner"

-----------------------------------------------------------------------------
(* Operations.                                                             *)

CalculateSystemHealth ==
    /\ pc = "health"
    /\ health_score' = calculate_system_health(prod_df, sup_df)
    /\ pc' = "risk"
    /\ UNCHANGED <<prod_df, sup_df, sensitivity, alerts, raised, banner,
                   prioritized, reprioritized, risk_index,
                   detection, analysis, whatif, raw, forecasting,
                   cycle>>

CalculateRiskIndex ==
    /\ pc = "risk"
    /\ risk_index' = calculate_risk_index(prod_df, sup_df)
    /\ pc' = "alerts"
    /\ UNCHANGED <<prod_df, sup_df, sensitivity, alerts, raised, banner,
                   prioritized, reprioritized, health_score,
                   detection, analysis, whatif, raw, forecasting,
                   cycle>>

GenerateAlerts ==
    /\ pc = "alerts"
    /\ IF GenerateAlertsRaises(prod_df, sup_df)
       THEN /\ raised' = "KeyError"
            /\ pc' = "raised"
            /\ UNCHANGED alerts
       ELSE /\ alerts' = generate_alerts(prod_df, sup_df, sensitivity)
            /\ pc' = "banner"
            /\ UNCHANGED raised
    /\ UNCHANGED <<prod_df, sup_df, sensitivity, banner, prioritized,
                   reprioritized, health_score, risk_index,
                   detection, analysis, whatif, raw, forecasting,
                   cycle>>

CreateBannerMessage ==
    /\ pc = "banner"
    /\ banner' = create_banner_message(alerts)
    /\ pc' = "prioritize"
    /\ UNCHANGED <<prod_df, sup_df, sensitivity, alerts, raised, prioritized,
                   reprioritized, health_score, risk_index,
                   detection, analysis, whatif, raw, forecasting,
                   cycle>>

PrioritizeAlerts ==
    /\ pc = "prioritize"
    /\ prioritized' = prioritize_alerts(alerts)
    /\ pc' = "reprioritize"
    /\ UNCHANGED <<prod_df, sup_df, sensitivity, alerts, raised, banner,
                   reprioritized, health_score, risk_index,
                   detection, analysis, whatif, raw, forecasting,
                   cycle>>

PrioritizeAgain ==
    /\ pc = "reprioritize"
    /\ reprioritized' = prioritize_alerts(prioritized)
    /\ pc' = "done"
    /\ UNCHANGED <<prod_df, sup_df, sensitivity, alerts, raised, banner,
                   prioritized, health_score, risk_index,
                   detection, analysis, whatif, raw, forecasting,
                   cycle>>

Next ==
    \/ GenerateAlerts
    \/ CreateBannerMessage
    \/ PrioritizeAlerts

NextScore ==
    \/ CalculateSystemHealth
    \/ CalculateRiskIndex

NextMissing ==
    \/ CalculateSystemHealth
    \/ CalculateRiskIndex
    \/ GenerateAlerts

NextLists ==
    \/ CreateBannerMessage
    \/ PrioritizeAlerts
    \/ PrioritizeAgain

Spec == Init /\ [][Next]_vars

SpecScore == InitScore /\ [][NextScore]_vars

SpecMissing == InitMissing /\ [][NextMissing]_vars

SpecLists == InitLists /\ [][NextLists]_vars

-----------------------------------------------------------------------------
(* Properties of generate_alerts.                                          *)

\* generate_alerts has just returned a list (it did not raise).
AlertsReturned == pc = "banner" /\ raised = "none"

WithPriority(list, p) ==
    LET Test(a) == a["priority"] = p IN SelectSeq(list, Test)

WithCategory(list, c) ==
    LET Test(a) == a["category"] = c IN SelectSeq(list, Test)

\* C1: the returned list is sorted non-decreasing by priority, and the
\* alerts of each priority appear in the order the rules emitted them.
C1_SortedStable ==
    AlertsReturned =>
        /\ \A i, j \in 1..Len(alerts) :
               i < j => alerts[i]["priority"] <= alerts[j]["priority"]
        /\ ~Empty(prod_df) =>
               LET emitted == EmittedAlerts(prod_df, sup_df, sensitivity)
               IN  \A p \in {1, 2} :
                       WithPriority(alerts, p) = WithPriority(emitted, p)

\* A returned list that the sort reordered and that holds a tie.
C1_Witness ==
    /\ AlertsReturned
    /\ alerts # EmittedAlerts(prod_df, sup_df, sensitivity)
    /\ Len(WithPriority(alerts, 1)) >= 2
    /\ Len(WithPriority(alerts, 2)) >= 2

Machines(df) == {df.rows[i]["machine_id"] : i \in 1..Len(df.rows)}

MachineRows(df, m) == {i \in 1..Len(df.rows) : df.rows[i]["machine_id"] = m}

RECURSIVE SumOver(_, _, _)
SumOver(df, col, idx) ==
    IF idx = {} THEN 0
    ELSE LET i == CHOOSE k \in idx : TRUE
         IN  df.rows[i][col] + SumOver(df, col, idx \ {i})

\* The mean efficiency of machine m is below 70.
MeanBelowLimit(df, m) ==
    SumOver(df, "efficiency", MachineRows(df, m))
        < LowEfficiencyLimit * Cardinality(MachineRows(df, m))

LowEfficiencyAlertsFor(list, m) ==
    {i \in 1..Len(list) :
        list[i]["category"] = "Production" /\ list[i]["message"].names = <<m>>}

\* C2: a machine gets a low-efficiency alert iff its mean efficiency is
\* below 70, and then exactly one, CRITICAL with priority 1.
C2_LowEfficiencyIffMeanBelow70 ==
    AlertsReturned /\ ~Empty(prod_df) =>
        \A m \in Machines(prod_df) :
            /\ Cardinality(LowEfficiencyAlertsFor(alerts, m))
                   = IF MeanBelowLimit(prod_df, m) THEN 1 ELSE 0
            /\ \A i \in LowEfficiencyAlertsFor(alerts, m) :
                   alerts[i]["severity"] = "CRITICAL" /\ alerts[i]["priority"] = 1

DelayedCount(sup) ==
    Cardinality({i \in 1..Len(sup.rows) : sup.rows[i]["supply_risk"] = "Delayed"})

\* C6: whatever the production table, the list holds exactly one Supply
\* Chain alert when some supplier row is Delayed and none otherwise.
C6_SupplyRuleIndependent ==
    AlertsReturned /\ ~Empty(sup_df) =>
        Len(WithCategory(alerts, "Supply Chain"))
            = IF DelayedCount(sup_df) >= 1 THEN 1 ELSE 0

\* C7: an emitted supply-delay alert is WARNING with priority 2 for one or
\* two delayed rows and CRITICAL with priority 1 for three or more.
C7_SupplySeverity ==
    AlertsReturned =>
        \A i \in 1..Len(alerts) :
            alerts[i]["category"] = "Supply Chain" =>
                /\ DelayedCount(sup_df) >= 1
                /\ IF DelayedCount(sup_df) <= 2
                   THEN alerts[i]["severity"] = "WARNING" /\ alerts[i]["priority"] = 2
                   ELSE alerts[i]["severity"] = "CRITICAL" /\ alerts[i]["priority"] = 1

\* The boundary: two delayed rows have been reported as a WARNING.
C7_Witness ==
    /\ AlertsReturned
    /\ DelayedCount(sup_df) = 2
    /\ \E i \in 1..Len(alerts) :
           alerts[i]["category"] = "Supply Chain" /\ alerts[i]["severity"] = "WARNING"

FlaggedTemperatures ==
    LET mask == detect_spike(prod_df, "temperature_c", sensitivity)
    IN  {prod_df.rows[i]["temperature_c"] : i \in {k \in 1..Len(mask) : mask[k]}}

\* C8: at most one temperature alert, present iff detect_spike flags a
\* row; CRITICAL with priority 1 when the hottest flagged row is above 40,
\* otherwise WARNING with priority 2.
C8_TemperatureAlert ==
    AlertsReturned /\ ~Empty(prod_df) =>
        LET safety == WithCategory(alerts, "Safety")
            flagged == FlaggedTemperatures
        IN  /\ Len(safety) = IF flagged # {} THEN 1 ELSE 0
            /\ \A i \in 1..Len(safety) :
                   IF \E t \in flagged : t > 40
                   THEN safety[i]["severity"] = "CRITICAL" /\ safety[i]["priority"] = 1
                   ELSE safety[i]["severity"] = "WARNING" /\ safety[i]["priority"] = 2

\* A spike whose hottest flagged row is exactly 40 has been reported.
C8_Witness ==
    /\ AlertsReturned
    /\ FlaggedTemperatures # {}
    /\ \A t \in FlaggedTemperatures : t <= 40
    /\ 40 \in FlaggedTemperatures
    /\ Len(WithCategory(alerts, "Safety")) = 1

-----------------------------------------------------------------------------
(* Properties of the scores.                                               *)

\* C3: the health score lies in [0, 100].
C3_HealthInRange ==
    pc # "health" => 0 <= health_score /\ health_score <= 1000

\* C4: the risk index lies in [0, 100].
C4_RiskInRange ==
    pc \notin {"health", "risk"} => 0 <= risk_index /\ risk_index <= 1000

\* A risk index computed from a negative mean efficiency, a maximum
\* temperature far above 35 and only delayed deliveries.
C4_Witness ==
    /\ pc \notin {"health", "risk"}
    /\ ~Empty(prod_df)
    /\ SumSeq(Column(prod_df, "efficiency")) < 0
    /\ \E i \in 1..Len(prod_df.rows) : prod_df.rows[i]["temperature_c"] = 1000
    /\ ~Empty(sup_df)
    /\ DelayedCount(sup_df) = Len(sup_df.rows)
    /\ risk_index = 1000

\* C5: no operation raises on an empty table or an absent column.
C5_NoFaultOnMissingData == raised = "none"

-----------------------------------------------------------------------------
(* Properties of create_banner_message and prioritize_alerts.              *)

IsCritical(a) == "severity" \in DOMAIN a /\ a["severity"] = "CRITICAL"

CriticalPositions(list) == {i \in 1..Len(list) : IsCritical(list[i])}

FirstCritical(list) ==
    list[CHOOSE i \in CriticalPositions(list) :
             \A j \in CriticalPositions(list) : i <= j]

BannerMade == pc \in {"prioritize", "reprioritize", "done"}

\* C9: the banner is empty iff the list has no CRITICAL alert; otherwise
\* it counts the CRITICAL alerts, is pluralized iff the count exceeds one,
\* and names the focus area and message of the first CRITICAL alert.
C9_Banner ==
    BannerMade =>
        /\ banner = <<>> <=> CriticalPositions(alerts) = {}
        /\ CriticalPositions(alerts) # {} =>
               /\ banner[1].count = Cardinality(CriticalPositions(alerts))
               /\ banner[1].plural <=> Cardinality(CriticalPositions(alerts)) > 1
               /\ "focus_area" \in DOMAIN FirstCritical(alerts) =>
                      banner[2].focus = FirstCritical(alerts)["focus_area"]
               /\ "message" \in DOMAIN FirstCritical(alerts) =>
                      banner[3].reason = FirstCritical(alerts)["message"]

\* A banner for a list that starts with a WARNING and holds two CRITICAL
\* alerts, the first of them with priority 2.
C9_Witness ==
    /\ BannerMade
    /\ Len(alerts) = 3
    /\ ~IsCritical(alerts[1])
    /\ IsCritical(alerts[2]) /\ Get(alerts[2], "priority", 99) = 2
    /\ IsCritical(alerts[3]) /\ Get(alerts[3], "priority", 99) = 1
    /\ banner # <<>>

SortKey(a) == <<Get(a, "priority", 99), Get(a, "severity", "INFO")>>

KeyLeq(k1, k2) ==
    k1[1] < k2[1] \/ (k1[1] = k2[1] /\ StringRank(k1[2]) <= StringRank(k2[2]))

WithKey(list, k) ==
    LET Test(a) == SortKey(a) = k IN SelectSeq(list, Test)

StableSortOf(out, in) ==
    /\ Len(out) = Len(in)
    /\ \A i, j \in 1..Len(out) : i < j => KeyLeq(SortKey(out[i]), SortKey(out[j]))
    /\ \A i \in 1..Len(in) : WithKey(out, SortKey(in[i])) = WithKey(in, SortKey(in[i]))

C10_State ==
    /\ pc \in {"reprioritize", "done"} => StableSortOf(prioritized, alerts)
    /\ pc = "done" => reprioritized = prioritized

\* C10: prioritize_alerts returns a permutation of its argument ordered by
\* (priority, severity) with equal keys in input order, applying it again
\* changes nothing, and the argument itself is left as it was.
C10_PrioritizeIdempotentStable ==
    [](C10_State) /\ [][alerts' = alerts]_vars

\* Both calls have run on an out-of-order list that holds two different
\* alerts with equal keys and an alert without one of the keys.
C10_Witness ==
    /\ pc = "done"
    /\ prioritized # alerts
    /\ \E i, j \in 1..Len(alerts) :
           i < j /\ SortKey(alerts[i]) = SortKey(alerts[j]) /\ alerts[i] # alerts[j]
    /\ \E i \in 1..Len(alerts) :
           "priority" \notin DOMAIN alerts[i] \/ "severity" \notin DOMAIN alerts[i]

-----------------------------------------------------------------------------
(* The anomaly detectors on their own.                                     *)

DetectSensitivities == {<<-1, 1>>, <<0, 1>>, <<1, 1>>, <<3, 2>>}

DetectColumns == {"efficiency", "temperature_c", "downtime_minutes"}

InitDetect ==
    /\ \E rows \in Seqs(ProdKinds, MaxRows) :
           prod_df = IF rows = <<>> THEN NoData ELSE Frame(ProdCols, rows)
    /\ sup_df = NoData
    /\ sensitivity \in DetectSensitivities
    /\ column \in DetectColumns
    /\ anomaly_mask = <<>>
    /\ spike_mask = <<>>
    /\ drop_mask = <<>>
    /\ Idle
    /\ IdleAnalysis /\ IdleWhatIf /\ IdleRaw /\ IdleForecasting
    /\ IdleCycle
    /\ pc = "detect_anomalies"

DetectAnomalies ==
    /\ pc = "detect_anomalies"
    /\ anomaly_mask' = detect_anomalies(prod_df, column, sensitivity)
    /\ pc' = "detect_spike"
    /\ UNCHANGED <<prod_df, sup_df, sensitivity, alerts, raised, banner,
                   prioritized, reprioritized, health_score, risk_index,
                   column, spike_mask, drop_mask,
                   analysis, whatif, raw, forecasting,
                   cycle>>

DetectSpike ==
    /\ pc = "detect_spike"
    /\ spike_mask' = detect_spike(prod_df, column, sensitivity)
    /\ pc' = "detect_drop"
    /\ UNCHANGED <<prod_df, sup_df, sensitivity, alerts, raised, banner,
                   prioritized, reprioritized, health_score, risk_index,
                   column, anomaly_mask, drop_mask,
                   analysis, whatif, raw, forecasting,
                   cycle>>

DetectDrop ==
    /\ pc = "detect_drop"
    /\ drop_mask' = detect_drop(prod_df, column, sensitivity)
    /\ pc' = "detected"
    /\ UNCHANGED <<prod_df, sup_df, sensitivity, alerts, raised, banner,
                   prioritized, reprioritized, health_score, risk_index,
                   column, anomaly_mask, spike_mask,
                   analysis, whatif, raw, forecasting,
                   cycle>>

NextDetect ==
    \/ DetectAnomalies
    \/ DetectSpike
    \/ DetectDrop

SpecDetect == InitDetect /\ [][NextDetect]_vars

\* Every value of the analysed column is the same.
ConstantColumn(df, col) ==
    \A i, j \in 1..Len(df.rows) : df.rows[i][col] = df.rows[j][col]

AllFalse(mask, n) == Len(mask) = n /\ \A i \in 1..n : mask[i] = FALSE

\* C11: on a non-empty table whose analysed column is constant (a single
\* row included) the three detectors return one FALSE per row, whatever
\* the sensitivity.
C11_ConstantColumnNeverFlags ==
    pc = "detected" /\ ~Empty(prod_df) /\ ConstantColumn(prod_df, column) =>
        /\ AllFalse(anomaly_mask, Len(prod_df.rows))
        /\ AllFalse(spike_mask, Len(prod_df.rows))
        /\ AllFalse(drop_mask, Len(prod_df.rows))

\* The detectors have run on three equal temperatures with a negative
\* sensitivity.
C11_Witness ==
    /\ pc = "detected"
    /\ Len(prod_df.rows) = 3
    /\ ConstantColumn(prod_df, column)
    /\ sensitivity[1] < 0
    /\ AllFalse(drop_mask, 3)

-----------------------------------------------------------------------------
(* model_inference.perform_root_cause_analysis.                            *)
(* A contribution is a float; the speed contribution (std ratio - 1) * 100 *)
(* is kept as the squared ratio of the two standard deviations.            *)

RcaDefaultThreshold == 75

RDiv(a, b) ==
    LET x == RNorm(a)
        y == RNorm(b)
    IN  IF y[1] < 0 THEN RNorm(<<-(x[1] * y[2]), -(x[2] * y[1])>>)
        ELSE RNorm(<<x[1] * y[2], x[2] * y[1]>>)

Rational(v) == [kind |-> "rational", value |-> v]

\* (sqrt(ratio2) - 1) * 100
RootContribution(ratio2) == [kind |-> "root", ratio2 |-> ratio2]

\* (1 + c / 100) ^ 2, which orders contributions >= 0 as c does.
ContributionSquare(c) ==
    IF c.kind = "rational"
    THEN LET g == RNorm(RAdd(R(1), RDiv(c.value, Hundred))) IN RMul(g, g)
    ELSE c.ratio2

ContributionLess(a, b) == RLt(ContributionSquare(a), ContributionSquare(b))

NoIssues ==
    [factor |-> "No Issues", impact |-> [text |-> "System operating normally"],
     contribution |-> Rational(R(0))]

\* Mutant: rows at the threshold count as low efficiency.
LowEfficiencyMask_inclusive(df, thr) ==
    [i \in 1..Len(df.rows) |-> RLe(R(df.rows[i]["efficiency"]), thr)]

\* prod_df['efficiency'] < threshold
LowEfficiencyMask(df, thr) ==
    [i \in 1..Len(df.rows) |-> RLt(R(df.rows[i]["efficiency"]), thr)]

\* prod_df['efficiency'] >= threshold
NormalMask(df, thr) ==
    [i \in 1..Len(df.rows) |-> ~RLt(R(df.rows[i]["efficiency"]), thr)]

\* The mean of an empty group is NaN: no comparison with it is true.
TemperatureCause(low, high) ==
    IF Len(high.rows) = 0 THEN <<>>
    ELSE LET temp_diff == RSub(Mean(Column(low, "temperature_c")),
                               Mean(Column(high, "temperature_c")))
         IN  IF RGt(RAbs(temp_diff), R(2))
             THEN <<[factor |-> "Temperature",
                     impact |-> [text |-> IF temp_diff[1] > 0 THEN "Higher"
                                          ELSE "Lower",
                                 value |-> Round1(RAbs(temp_diff))],
                     contribution |->
                         Rational(RMin(RMul(RAbs(temp_diff), R(10)), Hundred))]>>
             ELSE <<>>

\* Mutant: the downtime difference is taken in absolute value.
DowntimeCause_abs(low, high) ==
    IF Len(high.rows) = 0 THEN <<>>
    ELSE LET downtime_diff == RAbs(RSub(Mean(Column(low, "downtime_minutes")),
                                        Mean(Column(high, "downtime_minutes"))))
         IN  IF RGt(downtime_diff, <<1, 2>>)
             THEN <<[factor |-> "Downtime",
                     impact |-> [text |-> "Increased",
                                 value |-> Round1(downtime_diff)],
                     contribution |->
                         Rational(RMin(RMul(downtime_diff, R(20)), Hundred))]>>
             ELSE <<>>

DowntimeCause(low, high) ==
    IF Len(high.rows) = 0 THEN <<>>
    ELSE LET downtime_diff == RSub(Mean(Column(low, "downtime_minutes")),
                                   Mean(Column(high, "downtime_minutes")))
         IN  IF RGt(downtime_diff, <<1, 2>>)
             THEN <<[factor |-> "Downtime",
                     impact |-> [text |-> "Increased",
                                 value |-> Round1(downtime_diff)],
                     contribution |->
                         Rational(RMin(RMul(downtime_diff, R(20)), Hundred))]>>
             ELSE <<>>

\* std() of fewer than two rows is NaN.  std_low > 1.2 * std_high is
\* compared on the squares; a zero std_high makes the ratio inf, and
\* min(inf, 100) is 100.  The impact text repeats the contribution.
SpeedCause(low, high) ==
    IF Len(low.rows) < 2 \/ Len(high.rows) < 2 THEN <<>>
    ELSE LET speed_variance2 == Variance(Column(low, "speed_rpm"))
             normal_variance2 == Variance(Column(high, "speed_rpm"))
         IN  IF RGt(speed_variance2, RMul(<<36, 25>>, normal_variance2))
             THEN <<[factor |-> "Speed Instability",
                     impact |-> [text |-> "RPM variance higher"],
                     contribution |->
                         IF normal_variance2[1] = 0 THEN Rational(Hundred)
                         ELSE LET ratio2 == RDiv(speed_variance2, normal_variance2)
                              IN  IF RLe(R(4), ratio2) THEN Rational(Hundred)
                                  ELSE RootContribution(ratio2)]>>
             ELSE <<>>

\* list.sort(key=contribution, reverse=True): stable, largest first.
RECURSIVE InsertCause(_, _)
InsertCause(sorted, c) ==
    IF sorted = <<>> THEN <<c>>
    ELSE LET last == sorted[Len(sorted)]
         IN  IF ContributionLess(last.contribution, c.contribution)
             THEN Append(InsertCause(SubSeq(sorted, 1, Len(sorted) - 1), c), last)
             ELSE Append(sorted, c)

RECURSIVE SortedCauses(_)
SortedCauses(causes) ==
    IF causes = <<>> THEN <<>>
    ELSE InsertCause(SortedCauses(SubSeq(causes, 1, Len(causes) - 1)),
                     causes[Len(causes)])

perform_root_cause_analysis(df, thr) ==
    LET low_eff == Where(df, LowEfficiencyMask(df, thr))
        normal == Where(df, NormalMask(df, thr))
    IN  IF Empty(low_eff) THEN <<NoIssues>>
        ELSE LET sorted == SortedCauses(TemperatureCause(low_eff, normal)
                                        \o DowntimeCause(low_eff, normal)
                                        \o SpeedCause(low_eff, normal))
             IN  SubSeq(sorted, 1, IF Len(sorted) < 3 THEN Len(sorted) ELSE 3)

MaxRcaRows == 4

RcaCols == ProdCols \cup {"speed_rpm"}

RcaRow(e, t, d, s) ==
    [machine_id |-> "M1", efficiency |-> e, temperature_c |-> t,
     downtime_minutes |-> d, speed_rpm |-> s]

RcaKinds ==
    {RcaRow(60, 33, 1, 10), RcaRow(70, 30, 0, 13), RcaRow(74, 36, 6, 10),
     RcaRow(75, 30, 0, 10), RcaRow(90, 31, 1, 12), RcaRow(80, 34, 0, 10)}

Thresholds == {R(RcaDefaultThreshold), <<181, 2>>}

\* The dashboard analyses the production table only when it has rows.
InitRca ==
    /\ \E rows \in Seqs(RcaKinds, MaxRcaRows) :
           rows # <<>> /\ prod_df = Frame(RcaCols, rows)
    /\ sup_df = NoData
    /\ sensitivity = <<3, 2>>
    /\ threshold \in Thresholds
    /\ root_causes = <<>>
    /\ Idle
    /\ IdleDetection /\ IdleWhatIf /\ IdleRaw /\ IdleForecasting
    /\ IdleCycle
    /\ pc = "root_cause"

PerformRootCauseAnalysis ==
    /\ pc = "root_cause"
    /\ root_causes' = perform_root_cause_analysis(prod_df, threshold)
    /\ pc' = "root_cause_done"
    /\ UNCHANGED <<prod_df, sup_df, sensitivity, alerts, raised, banner,
                   prioritized, reprioritized, health_score, risk_index,
                   threshold, detection, whatif, raw, forecasting,
                   cycle>>

NextRca == PerformRootCauseAnalysis

SpecRca == InitRca /\ [][NextRca]_vars

LowRows == {i \in 1..Len(prod_df.rows) :
               RLt(R(prod_df.rows[i]["efficiency"]), threshold)}

NormalRows == (1..Len(prod_df.rows)) \ LowRows

IsSentinel(c) ==
    c.factor = "No Issues" /\ c.contribution.kind = "rational"
        /\ c.contribution.value[1] = 0

\* C12: when every row has efficiency >= threshold the analysis returns
\* exactly the one "No Issues" entry with contribution 0, and when some row
\* is below the threshold no returned entry is that sentinel.
C12_SentinelIffNoLowRow ==
    pc = "root_cause_done" =>
        /\ LowRows = {} => Len(root_causes) = 1 /\ IsSentinel(root_causes[1])
        /\ LowRows # {} => \A k \in 1..Len(root_causes) : ~IsSentinel(root_causes[k])

\* Two or more rows, one exactly at the threshold and none below it, gave
\* the sentinel.
C12_Witness ==
    /\ pc = "root_cause_done"
    /\ Len(prod_df.rows) >= 2
    /\ LowRows = {}
    /\ \E i \in 1..Len(prod_df.rows) : REq(R(prod_df.rows[i]["efficiency"]), threshold)
    /\ Len(root_causes) = 1 /\ IsSentinel(root_causes[1])

RECURSIVE SumSquaresOver(_, _, _)
SumSquaresOver(df, col, idx) ==
    IF idx = {} THEN 0
    ELSE LET i == CHOOSE k \in idx : TRUE
         IN  df.rows[i][col] * df.rows[i][col]
                 + SumSquaresOver(df, col, idx \ {i})

\* mean(col over LowRows) - mean(col over NormalRows), times both counts.
ScaledMeanDifference(col) ==
    SumOver(prod_df, col, LowRows) * Cardinality(NormalRows)
        - SumOver(prod_df, col, NormalRows) * Cardinality(LowRows)

\* n * (n - 1) times the sample variance of speed_rpm over the rows idx.
ScaledSpread(idx) ==
    Cardinality(idx) * SumSquaresOver(prod_df, "speed_rpm", idx)
        - SumOver(prod_df, "speed_rpm", idx) * SumOver(prod_df, "speed_rpm", idx)

\* A comparison with the mean or the standard deviation of a group that has
\* none (no normal row, fewer than two rows) is false.
TemperatureDiverges ==
    LET d == ScaledMeanDifference("temperature_c")
    IN  /\ NormalRows # {}
        /\ (IF d < 0 THEN -d ELSE d)
               > 2 * Cardinality(LowRows) * Cardinality(NormalRows)

DowntimeDiverges ==
    /\ NormalRows # {}
    /\ 2 * ScaledMeanDifference("downtime_minutes")
           > Cardinality(LowRows) * Cardinality(NormalRows)

\* std_low > 1.2 * std_high, squared: 25 * var_low > 36 * var_high.
SpeedDiverges ==
    LET nl == Cardinality(LowRows)
        nh == Cardinality(NormalRows)
    IN  /\ nl >= 2
        /\ nh >= 2
        /\ 25 * ScaledSpread(LowRows) * nh * (nh - 1)
               > 36 * ScaledSpread(NormalRows) * nl * (nl - 1)

HasFactor(f) == \E k \in 1..Len(root_causes) : root_causes[k].factor = f

ContributionInRange(c) ==
    IF c.kind = "rational"
    THEN RGt(c.value, R(0)) /\ RLe(c.value, Hundred)
    ELSE RGt(c.ratio2, R(1)) /\ RLe(c.ratio2, R(4))

\* C20: with a non-empty low-efficiency group the analysis returns at most
\* three entries, largest contribution first, one per factor at most, each
\* contribution in (0, 100], and each factor is present exactly when its
\* divergence clears its bar.
C20_RankedCauses ==
    pc = "root_cause_done" /\ LowRows # {} =>
        /\ Len(root_causes) <= 3
        /\ \A k \in 1..(Len(root_causes) - 1) :
               ~ContributionLess(root_causes[k].contribution,
                                 root_causes[k + 1].contribution)
        /\ \A k \in 1..Len(root_causes) :
               /\ root_causes[k].factor
                      \in {"Temperature", "Downtime", "Speed Instability"}
               /\ ContributionInRange(root_causes[k].contribution)
               /\ \A j \in 1..Len(root_causes) :
                      j # k => root_causes[j].factor # root_causes[k].factor
        /\ HasFactor("Temperature") <=> TemperatureDiverges
        /\ HasFactor("Downtime") <=> DowntimeDiverges
        /\ HasFactor("Speed Instability") <=> SpeedDiverges

\* All three factors were returned, and not in the order they were tested:
\* the temperature entry comes last, after a speed entry below the cap.
C20_Witness ==
    /\ pc = "root_cause_done"
    /\ Len(root_causes) = 3
    /\ root_causes[1].factor = "Downtime"
    /\ root_causes[2].factor = "Speed Instability"
    /\ root_causes[2].contribution.kind = "root"
    /\ root_causes[3].factor = "Temperature"

-----------------------------------------------------------------------------
(* utils.simulate_what_if.  The inputs are rationals; the returned values  *)
(* are rounded: one decimal as an integer number of tenths, the cost as an *)
(* integer.                                                                *)

CostPerPoint == 500

\* round(x, 0): the nearest integer, ties to even.
Round0(a) ==
    LET n == a[1]
        d == a[2]
        q == (2 * n + d) \div (2 * d)
    IN  IF (2 * n + d) % (2 * d) = 0 /\ q % 2 = 1 THEN q - 1 ELSE q

\* Mutant: the sign of the temperature change is kept.
TempImpact_signed(temp_change) ==
    RMul(RMul(<<-temp_change[1], temp_change[2]>>, R(2)), <<1, 5>>)

\* -abs(temp_change) * 2 * 0.2
TempImpact(temp_change) ==
    LET a == RAbs(temp_change)
    IN  RMul(RMul(<<-a[1], a[2]>>, R(2)), <<1, 5>>)

ProjectedHealth(s) ==
    LET eff_impact == RMul(s.efficiency_change, <<2, 5>>)
        temp_impact == TempImpact(s.temp_change)
        supply_impact == RMul(s.supply_improvement, <<1, 5>>)
    IN  RMin(RMax(RAdd(RAdd(RAdd(s.current_health, eff_impact), temp_impact),
                       supply_impact), R(0)), Hundred)

simulate_what_if(s) ==
    LET projected_health == ProjectedHealth(s)
        projected_risk == RMin(RMax(RSub(Hundred, projected_health), R(0)), Hundred)
    IN  [projected_health |-> Round1(projected_health),
         projected_risk |-> Round1(projected_risk),
         health_change |-> Round1(RSub(projected_health, s.current_health)),
         risk_change |-> Round1(RSub(s.current_risk, projected_risk)),
         cost_impact |-> Round0(RMul(RAbs(RSub(projected_health, s.current_health)),
                                     R(CostPerPoint)))]

\* The scores are rounded to one decimal before they reach the simulator
\* and the sliders move in steps of 0.5, 0.5 and 1.
HealthInputs == {R(0), <<325, 10>>, R(70), <<999, 10>>, R(100), R(104)}

RiskInputs == {R(0), <<123, 10>>, R(30), R(100)}

EfficiencyChanges == {R(-20), <<-1, 2>>, R(0), R(10), R(20)}

TempChanges == {R(-10), R(0), <<1, 2>>, R(10)}

SupplyChanges == {R(-20), R(0), R(1), R(20)}

InitSimulate ==
    /\ prod_df = NoData
    /\ sup_df = NoData
    /\ sensitivity = <<3, 2>>
    /\ scenario \in [current_health : HealthInputs, current_risk : RiskInputs,
                     efficiency_change : EfficiencyChanges,
                     temp_change : TempChanges,
                     supply_improvement : SupplyChanges]
    /\ simulation = NoSimulation
    /\ Idle
    /\ IdleDetection /\ IdleAnalysis /\ IdleRaw /\ IdleForecasting
    /\ IdleCycle
    /\ pc = "simulate"

SimulateWhatIf ==
    /\ pc = "simulate"
    /\ simulation' = simulate_what_if(scenario)
    /\ pc' = "simulated"
    /\ UNCHANGED <<prod_df, sup_df, sensitivity, alerts, raised, banner,
                   prioritized, reprioritized, health_score, risk_index,
                   scenario, detection, analysis, raw, forecasting,
                   cycle>>

NextSimulate == SimulateWhatIf

SpecSimulate == InitSimulate /\ [][NextSimulate]_vars

Tenths(n) == <<n, 10>>

Clamp(x) == IF RLt(x, R(0)) THEN R(0) ELSE IF RGt(x, Hundred) THEN Hundred ELSE x

\* current_health + 0.4 * eff_change - 0.4 * |temp_change| + 0.2 * supply_change
Perturbed(s) ==
    RAdd(RSub(RAdd(s.current_health, RMul(<<4, 10>>, s.efficiency_change)),
              RMul(<<4, 10>>, RAbs(s.temp_change))),
         RMul(<<2, 10>>, s.supply_improvement))

ExampleScenario ==
    [current_health |-> R(70), current_risk |-> R(30),
     efficiency_change |-> R(10), temp_change |-> R(0),
     supply_improvement |-> R(0)]

C13_ClampedWitness ==
    /\ pc = "simulated"
    /\ RGt(Perturbed(scenario), Hundred)
    /\ simulation.projected_health = 1000

-----------------------------------------------------------------------------
(* data_processing.transform_production_data and transform_supplier_data.  *)
(* A raw date is <<day, hour>>, or <<>> when the field is null; parsed, it *)
(* is <<hours>>, or <<>> for NaT.  A derived efficiency is a float: finite,*)
(* inf, -inf or nan.                                                       *)

HoursPerDay == 24

\* pd.to_datetime
ToDatetime(d) == IF d = <<>> THEN <<>> ELSE <<d[1] * HoursPerDay + d[2]>>

Finite(v) == [kind |-> "finite", value |-> v]

\* Float division of two numeric columns: x / 0 is inf, -inf or nan and
\* raises nothing.
FloatDivide(x, y) ==
    IF y # 0 THEN Finite(RDiv(R(x), R(y)))
    ELSE IF x > 0 THEN [kind |-> "inf"]
    ELSE IF x < 0 THEN [kind |-> "-inf"]
    ELSE [kind |-> "nan"]

\* f * 100 for a float f.
TimesHundred(f) ==
    IF f.kind = "finite" THEN Finite(RNorm(RMul(f.value, Hundred))) ELSE f

transform_production_data(df) ==
    IF Empty(df) THEN df
    ELSE [cols |-> df.cols \cup {"output_gap", "efficiency"},
          rows |-> [i \in 1..Len(df.rows) |->
              [c \in df.cols \cup {"output_gap", "efficiency"} |->
                  IF c = "timestamp" THEN ToDatetime(df.rows[i]["timestamp"])
                  ELSE IF c = "output_gap"
                       THEN df.rows[i]["target_output"] - df.rows[i]["actual_output"]
                  ELSE IF c = "efficiency"
                       THEN TimesHundred(FloatDivide(df.rows[i]["actual_output"],
                                                     df.rows[i]["target_output"]))
                  ELSE df.rows[i][c]]]]

\* Mutant: a delivery on the expected day counts as late.
LateFlag_inclusive(actual, expected) ==
    IF actual = <<>> \/ expected = <<>> THEN FALSE
    ELSE ((actual[1] - expected[1]) \div HoursPerDay) >= 0

\* (actual - expected).dt.days > 0: the whole days of the difference,
\* rounded down; the days of NaT are NaN, and NaN > 0 is False.
LateFlag(actual, expected) ==
    IF actual = <<>> \/ expected = <<>> THEN FALSE
    ELSE ((actual[1] - expected[1]) \div HoursPerDay) > 0

\* .replace({True: "Delayed", False: "On Time"})
RiskLabel(flag) == IF flag THEN "Delayed" ELSE "On Time"

transform_supplier_data(df) ==
    IF Empty(df) THEN df
    ELSE [cols |-> df.cols \cup {"supply_risk"},
          rows |-> [i \in 1..Len(df.rows) |->
              [c \in df.cols \cup {"supply_risk"} |->
                  IF c = "timestamp" THEN ToDatetime(df.rows[i]["timestamp"])
                  ELSE IF c = "supply_risk"
                       THEN RiskLabel(LateFlag(
                                ToDatetime(df.rows[i]["actual_delivery_date"]),
                                ToDatetime(df.rows[i]["expected_delivery_date"])))
                  ELSE df.rows[i][c]]]]

MaxRawRows == 2

RawProdCols == {"machine_id", "timestamp", "target_output", "actual_output"}

RawSupCols ==
    {"supplier_id", "timestamp", "expected_delivery_date", "actual_delivery_date"}

RawProdRow(target, actual) ==
    [machine_id |-> "M1", timestamp |-> <<1, 8>>,
     target_output |-> target, actual_output |-> actual]

RawSupRow(expected, actual) ==
    [supplier_id |-> "S1", timestamp |-> <<1, 8>>,
     expected_delivery_date |-> expected, actual_delivery_date |-> actual]

RawProdKinds ==
    {RawProdRow(100, 80), RawProdRow(100, 120), RawProdRow(3, 1),
     RawProdRow(0, 50), RawProdRow(0, 0)}

RawSupKinds ==
    {RawSupRow(<<10, 0>>, <<12, 0>>), RawSupRow(<<10, 0>>, <<10, 0>>),
     RawSupRow(<<10, 0>>, <<9, 0>>), RawSupRow(<<10, 0>>, <<10, 23>>),
     RawSupRow(<<10, 0>>, <<11, 0>>), RawSupRow(<<10, 0>>, <<9, 23>>),
     RawSupRow(<<10, 0>>, <<>>)}

InitTransform ==
    /\ \E rows \in Seqs(RawProdKinds, MaxRawRows) :
           prod_df_raw = IF rows = <<>> THEN NoData ELSE Frame(RawProdCols, rows)
    /\ \E rows \in Seqs(RawSupKinds, MaxRawRows) :
           sup_df_raw = IF rows = <<>> THEN NoData ELSE Frame(RawSupCols, rows)
    /\ prod_df = NoData
    /\ sup_df = NoData
    /\ sensitivity = <<3, 2>>
    /\ Idle
    /\ IdleDetection /\ IdleAnalysis /\ IdleWhatIf /\ IdleForecasting
    /\ IdleCycle
    /\ pc = "transform_production"

TransformProductionData ==
    /\ pc = "transform_production"
    /\ prod_df' = transform_production_data(prod_df_raw)
    /\ pc' = "transform_supplier"
    /\ UNCHANGED <<sup_df, sensitivity, alerts, raised, banner,
                   prioritized, reprioritized, health_score, risk_index,
                   detection, analysis, whatif, raw, forecasting,
                   cycle>>

TransformSupplierData ==
    /\ pc = "transform_supplier"
    /\ sup_df' = transform_supplier_data(sup_df_raw)
    /\ pc' = "transformed"
    /\ UNCHANGED <<prod_df, sensitivity, alerts, raised, banner,
                   prioritized, reprioritized, health_score, risk_index,
                   detection, analysis, whatif, raw, forecasting,
                   cycle>>

NextTransform ==
    \/ TransformProductionData
    \/ TransformSupplierData

SpecTransform == InitTransform /\ [][NextTransform]_vars

\* Hours from the expected to the actual delivery of raw supplier row i.
HoursLate(i) ==
    LET a == sup_df_raw.rows[i]["actual_delivery_date"]
        e == sup_df_raw.rows[i]["expected_delivery_date"]
    IN  (a[1] * 24 + a[2]) - (e[1] * 24 + e[2])

Delivered(i) == sup_df_raw.rows[i]["actual_delivery_date"] # <<>>

\* C14: every transformed supplier row has supply_risk "Delayed" or
\* "On Time", and it is "Delayed" exactly when the actual delivery is at
\* least one whole day (24 hours) after the expected one; equal and earlier
\* dates give "On Time".
C14_DelayedIffWholeDayLate ==
    pc = "transformed" /\ ~Empty(sup_df_raw) =>
        /\ Len(sup_df.rows) = Len(sup_df_raw.rows)
        /\ \A i \in 1..Len(sup_df.rows) :
               /\ sup_df.rows[i]["supply_risk"] \in {"Delayed", "On Time"}
               /\ sup_df.rows[i]["supply_risk"] = "Delayed"
                      <=> Delivered(i) /\ HoursLate(i) >= 24

\* A delivery on the expected day was labelled "On Time" and one a day
\* later "Delayed".
C14_Witness ==
    /\ pc = "transformed"
    /\ Len(sup_df.rows) = 2
    /\ Delivered(1) /\ HoursLate(1) = 0 /\ sup_df.rows[1]["supply_risk"] = "On Time"
    /\ Delivered(2) /\ HoursLate(2) = 24 /\ sup_df.rows[2]["supply_risk"] = "Delayed"

-----------------------------------------------------------------------------
(* The scores on tables that may be empty or lack the column of one        *)
(* component.                                                              *)

ScoredProdCols == {"efficiency", "temperature_c", "downtime_minutes"}

\* A supplier table may also keep its columns and have no rows.
InitPartial ==
    /\ \E rows \in Seqs(ScoreKinds, MaxScoreRows), c \in ScoredProdCols \cup {"none"} :
           prod_df = IF rows = <<>> THEN NoData ELSE Frame(ProdCols \ {c}, rows)
    /\ \E rows \in Seqs(SupKinds, MaxSupRows), c \in {"supply_risk", "none"},
          header \in BOOLEAN :
           sup_df = IF rows = <<>> /\ ~header THEN NoData
                    ELSE Frame(SupCols \ {c}, rows)
    /\ sensitivity = <<3, 2>>
    /\ Idle
    /\ IdleDetection /\ IdleAnalysis /\ IdleWhatIf /\ IdleRaw /\ IdleForecasting
    /\ IdleCycle
    /\ pc = "health"

SpecPartial == InitPartial /\ [][NextScore]_vars

\* The table has rows and the column.
Present(df, col) == Len(df.rows) > 0 /\ col \in df.cols

MeanOf(df, col) == <<SumSeq(Column(df, col)), Len(df.rows)>>

\* Percentage of supplier rows with the given status.
StatusPercentage(status) ==
    <<100 * Cardinality({i \in 1..Len(sup_df.rows) :
                            sup_df.rows[i]["supply_risk"] = status}),
      Len(sup_df.rows)>>

NoHealthComponent ==
    /\ \A c \in ScoredProdCols : ~Present(prod_df, c)
    /\ ~Present(sup_df, "supply_risk")

\* 0.4 * clamp(mean efficiency, 0, 100) + 0.2 * max(100 - 10 * |mean temp
\* - 32.5|, 0) + 0.2 * max(100 - 20 * mean downtime, 0) + 0.2 * on-time
\* percentage, over the components that are present.
HealthSum ==
    LET e == IF Present(prod_df, "efficiency")
             THEN RMul(<<4, 10>>, Clamp(MeanOf(prod_df, "efficiency")))
             ELSE R(0)
        t == IF Present(prod_df, "temperature_c")
             THEN LET dev == RAbs(RSub(MeanOf(prod_df, "temperature_c"), <<325, 10>>))
                      score == RSub(R(100), RMul(R(10), dev))
                  IN  RMul(<<2, 10>>, IF RLt(score, R(0)) THEN R(0) ELSE score)
             ELSE R(0)
        d == IF Present(prod_df, "downtime_minutes")
             THEN LET score == RSub(R(100), RMul(R(20), MeanOf(prod_df, "downtime_minutes")))
                  IN  RMul(<<2, 10>>, IF RLt(score, R(0)) THEN R(0) ELSE score)
             ELSE R(0)
        s == IF Present(sup_df, "supply_risk")
             THEN RMul(<<2, 10>>, StatusPercentage("On Time"))
             ELSE R(0)
    IN  RNorm(RAdd(RNorm(RAdd(e, t)), RNorm(RAdd(d, s))))

\* C15 as stated: the health score is exactly the sum of the present
\* components, and it is 50.0 iff no component can be computed.
C15_HealthIsComponentSum ==
    pc # "health" =>
        /\ ~NoHealthComponent => REq(Tenths(health_score), HealthSum)
        /\ health_score = 500 <=> NoHealthComponent

\* C15, amended: the health score is the sum of the present components
\* rounded to one decimal, and the default 50.0 when no component can be
\* computed.
C15_HealthIsRoundedComponentSum ==
    pc # "health" =>
        health_score = IF NoHealthComponent THEN 500 ELSE Round1(HealthSum)

\* A score from a production table without downtime_minutes and a supplier
\* table with one delivery in three on time: the sum is not a multiple of 0.1.
C15_Witness ==
    /\ pc # "health"
    /\ Present(prod_df, "efficiency")
    /\ ~Present(prod_df, "downtime_minutes")
    /\ Present(sup_df, "supply_risk")
    /\ Len(sup_df.rows) = 3
    /\ ~REq(Tenths(health_score), HealthSum)
    /\ health_score = Round1(HealthSum)

NoRiskFactor ==
    /\ ~Present(prod_df, "efficiency")
    /\ ~Present(prod_df, "temperature_c")
    /\ ~Present(sup_df, "supply_risk")

MaxOf(df, col) ==
    CHOOSE m \in {df.rows[i][col] : i \in 1..Len(df.rows)} :
        \A i \in 1..Len(df.rows) : df.rows[i][col] <= m

\* 0.3 * max(100 - mean efficiency, 0) + 0.3 * min(max((max temp - 35) * 20,
\* 0), 100) + 0.4 * delayed percentage, over the factors that are present.
RiskSum ==
    LET e == IF Present(prod_df, "efficiency")
             THEN LET risk == RSub(R(100), MeanOf(prod_df, "efficiency"))
                  IN  RMul(<<3, 10>>, IF RLt(risk, R(0)) THEN R(0) ELSE risk)
             ELSE R(0)
        t == IF Present(prod_df, "temperature_c")
             THEN RMul(<<3, 10>>, Clamp(R((MaxOf(prod_df, "temperature_c") - 35) * 20)))
             ELSE R(0)
        s == IF Present(sup_df, "supply_risk")
             THEN RMul(<<4, 10>>, StatusPercentage("Delayed"))
             ELSE R(0)
    IN  RNorm(RAdd(RNorm(RAdd(e, t)), s))

CappedRiskSum == IF RGt(RiskSum, R(100)) THEN R(100) ELSE RiskSum

\* C16 as stated: the risk index is exactly min(S, 100) for the sum S of
\* the present factors, and it is 30.0 iff no factor can be computed.
C16_RiskIsCappedFactorSum ==
    pc \notin {"health", "risk"} =>
        /\ ~NoRiskFactor => REq(Tenths(risk_index), CappedRiskSum)
        /\ risk_index = 300 <=> NoRiskFactor

\* C16, amended: the risk index is min(S, 100) rounded to one decimal, and
\* the default 30.0 when no factor can be computed.
C16_RiskIsRoundedCappedFactorSum ==
    pc \notin {"health", "risk"} =>
        risk_index = IF NoRiskFactor THEN 300 ELSE Round1(CappedRiskSum)

\* An index from a production table without temperature_c and a supplier
\* table with two deliveries in three delayed: the sum is not a multiple
\* of 0.1.
C16_Witness ==
    /\ pc \notin {"health", "risk"}
    /\ Present(prod_df, "efficiency")
    /\ ~Present(prod_df, "temperature_c")
    /\ Present(sup_df, "supply_risk")
    /\ Len(sup_df.rows) = 3
    /\ ~REq(Tenths(risk_index), CappedRiskSum)
    /\ risk_index = Round1(CappedRiskSum)

\* An index whose factor sum was above 100.
C16_CappedWitness ==
    /\ pc \notin {"health", "risk"}
    /\ RGt(RiskSum, R(100))
    /\ risk_index = 1000

-----------------------------------------------------------------------------
(* The efficiency-trend rule of generate_alerts.                           *)

TrendAlertsOf(list) == WithCategory(list, "Trend Analysis")

\* Sum of the efficiency of the first 10 records minus that of the last 10.
WindowDifference ==
    LET n == Len(prod_df.rows)
    IN  SumOver(prod_df, "efficiency", 1..10)
            - SumOver(prod_df, "efficiency", (n - 9)..n)

\* C17: the returned list holds the trend alert, a WARNING of priority 2,
\* iff the table has at least 10 records and the mean efficiency of the
\* first 10 exceeds that of the last 10 by more than 10; never more than
\* one, none below 10 records, with exactly 10 records, or for a
\* difference of exactly 10.
C17_TrendAlert ==
    AlertsReturned =>
        LET trend == TrendAlertsOf(alerts)
            n == Len(prod_df.rows)
        IN  /\ Len(trend) <= 1
            /\ Len(trend) = 1 <=> n >= 10 /\ WindowDifference > 10 * 10
            /\ n <= 10 => trend = <<>>
            /\ n >= 10 /\ WindowDifference = 10 * 10 => trend = <<>>
            /\ \A k \in 1..Len(trend) :
                   trend[k]["severity"] = "WARNING" /\ trend[k]["priority"] = 2

\* Fifteen records whose first ten are 20 points above the last ten gave
\* the trend alert.
C17_Witness ==
    /\ AlertsReturned
    /\ Len(prod_df.rows) = 15
    /\ WindowDifference = 200
    /\ Len(TrendAlertsOf(alerts)) = 1

\* Fifteen records with a difference of exactly 10 points gave none.
C17_BoundaryWitness ==
    /\ AlertsReturned
    /\ Len(prod_df.rows) = 15
    /\ WindowDifference = 100
    /\ TrendAlertsOf(alerts) = <<>>

-----------------------------------------------------------------------------
(* model_inference.forecast_metrics.  A forecast is a float: finite or     *)
(* nan.  A bound forecast +- 2 * std is kept as the forecast, the factor   *)
(* and the variance of the residuals.                                      *)

NaN == [kind |-> "nan"]

\* a + k * sqrt(v)
Surd(a, k, v) ==
    IF v[1] = 0 THEN Finite(a)
    ELSE [kind |-> "surd", value |-> a, factor |-> k, radicand |-> v]

\* a + b over the least common denominator.
RAddNorm(a, b) ==
    LET x == RNorm(a)
        y == RNorm(b)
        g == GCD(x[2], y[2])
    IN  RNorm(<<x[1] * (y[2] \div g) + y[1] * (x[2] \div g), (x[2] \div g) * y[2]>>)

\* The sum of a sequence of rationals, halves first.
RECURSIVE RSumNorm(_)
RSumNorm(s) ==
    IF s = <<>> THEN R(0)
    ELSE IF Len(s) = 1 THEN RNorm(s[1])
    ELSE LET h == Len(s) \div 2
         IN  RAddNorm(RSumNorm(SubSeq(s, 1, h)), RSumNorm(SubSeq(s, h + 1, Len(s))))

\* np.polyfit(x, y, 1) for at least two distinct x: the least-squares
\* slope and intercept.
PolyFit(x, y) ==
    LET n == Len(x)
        sx == SumSeq(x)
        sy == SumSeq(y)
        sxx == SumSeq([i \in 1..n |-> x[i] * x[i]])
        sxy == SumSeq([i \in 1..n |-> x[i] * y[i]])
        det == n * sxx - sx * sx
    IN  [slope |-> RNorm(<<n * sxy - sx * sy, det>>),
         intercept |-> RNorm(<<sy * sxx - sx * sxy, det>>)]

\* slope * t + intercept
LineAt(coeffs, t) == RNorm(RAdd(RMul(coeffs.slope, R(t)), coeffs.intercept))

\* np.std(residuals) squared: the population variance.
ResidualVariance(x, y, coeffs) ==
    LET n == Len(x)
        residuals == [i \in 1..n |-> RNorm(RSub(R(y[i]), LineAt(coeffs, x[i])))]
        mean == RNorm(RDiv(RSumNorm(residuals), R(n)))
        squares == [i \in 1..n |->
                       LET d == RNorm(RSub(residuals[i], mean)) IN RMul(d, d)]
    IN  RNorm(RDiv(RSumNorm(squares), R(n)))

NaNTriple == [forecast |-> NaN, lower_bound |-> NaN, upper_bound |-> NaN]

\* The possible outcomes of forecast_metrics.  With a single row the only
\* time index is 0: polyfit scales the columns of its matrix by their
\* norms, 0 / 0 is nan, and the least-squares solver either fails to
\* converge (LinAlgError) or returns nan coefficients.
forecast_metrics(df, col, h) ==
    IF Empty(df) \/ col \notin df.cols
    THEN {[raised |-> "none", frame |-> <<>>]}
    ELSE LET y == Column(df, col)
             n == Len(y)
             time_idx == [i \in 1..n |-> i - 1]
         IN  IF n = 1
             THEN {[raised |-> "LinAlgError", frame |-> <<>>],
                   [raised |-> "none", frame |-> [k \in 1..h |-> NaNTriple]]}
             ELSE LET coeffs == PolyFit(time_idx, y)
                      var == ResidualVariance(time_idx, y, coeffs)
                  IN  {[raised |-> "none",
                        frame |-> [k \in 1..h |->
                            LET forecast == LineAt(coeffs, n + k - 1)
                            IN  [forecast |-> Finite(forecast),
                                 lower_bound |-> Surd(forecast, -2, var),
                                 upper_bound |-> Surd(forecast, 2, var)]]]}

MaxForecastRows == 3

ForecastWindow == 50

DefaultHorizon == 12

Horizons == {1, 2, DefaultHorizon}

ForecastValues == {5, 6, 7, 9}

InitForecast ==
    /\ \E rows \in Seqs({ProdRow("M1", e, 30, 0) : e \in ForecastValues},
                        MaxForecastRows),
          c \in {"efficiency", "none"} :
           prod_df = IF rows = <<>> THEN NoData ELSE Frame(ProdCols \ {c}, rows)
    /\ sup_df = NoData
    /\ sensitivity = <<3, 2>>
    /\ column = "efficiency"
    /\ anomaly_mask = <<>>
    /\ spike_mask = <<>>
    /\ drop_mask = <<>>
    /\ horizon \in Horizons
    /\ forecast_df = <<>>
    /\ Idle
    /\ IdleAnalysis /\ IdleWhatIf /\ IdleRaw
    /\ IdleCycle
    /\ pc = "forecast"

ForecastMetrics ==
    /\ pc = "forecast"
    /\ \E outcome \in forecast_metrics(TailRows(prod_df, ForecastWindow),
                                       column, horizon) :
           /\ forecast_df' = outcome.frame
           /\ raised' = outcome.raised
           /\ pc' = IF outcome.raised = "none" THEN "forecast_done" ELSE "raised"
    /\ UNCHANGED <<prod_df, sup_df, sensitivity, alerts, banner,
                   prioritized, reprioritized, health_score, risk_index,
                   horizon, detection, analysis, whatif, raw,
                   cycle>>

NextForecast == ForecastMetrics

SpecForecast == InitForecast /\ [][NextForecast]_vars

HasSeries == ~Empty(prod_df) /\ column \in prod_df.cols

\* Sums over the historical rows, with row i at time index i - 1.
SeriesCount == Len(prod_df.rows)

SumY == SumSeq([i \in 1..SeriesCount |-> prod_df.rows[i][column]])

SumYY == SumSeq([i \in 1..SeriesCount |->
                    prod_df.rows[i][column] * prod_df.rows[i][column]])

SumT == SumSeq([i \in 1..SeriesCount |-> i - 1])

SumTT == SumSeq([i \in 1..SeriesCount |-> (i - 1) * (i - 1)])

SumTY == SumSeq([i \in 1..SeriesCount |-> (i - 1) * prod_df.rows[i][column]])

\* The least-squares line through the series is
\* (LsSlopeNum * t + LsInterceptNum) / LsDet.
LsDet == SeriesCount * SumTT - SumT * SumT

LsSlopeNum == SeriesCount * SumTY - SumT * SumY

LsInterceptNum == SumY * SumTT - SumT * SumTY

\* The mean squared residual of that line.
LsResidualVariance ==
    RNorm(<<(SeriesCount * SumYY - SumY * SumY) * LsDet - LsSlopeNum * LsSlopeNum,
            SeriesCount * SeriesCount * LsDet>>)

\* The series lies on the line through its first two points.
LinearSeries ==
    /\ SeriesCount >= 2
    /\ \A i \in 1..SeriesCount :
           prod_df.rows[i][column]
               = prod_df.rows[1][column]
                   + (i - 1) * (prod_df.rows[2][column] - prod_df.rows[1][column])

\* lower_bound <= forecast <= upper_bound for a triple of finite values.
Ordered(triple) ==
    /\ triple.forecast.kind = "finite"
    /\ \/ triple.lower_bound.kind = "finite"
          /\ RLe(triple.lower_bound.value, triple.forecast.value)
       \/ triple.lower_bound.kind = "surd"
          /\ REq(triple.lower_bound.value, triple.forecast.value)
          /\ triple.lower_bound.factor <= 0
    /\ \/ triple.upper_bound.kind = "finite"
          /\ RLe(triple.forecast.value, triple.upper_bound.value)
       \/ triple.upper_bound.kind = "surd"
          /\ REq(triple.upper_bound.value, triple.forecast.value)
          /\ triple.upper_bound.factor >= 0

\* The k-th returned triple is the least-squares line at index n + k - 1
\* with the bounds 2 residual standard deviations away.
TripleOnLine(k) ==
    LET triple == forecast_df[k]
        t == SeriesCount + k - 1
    IN  /\ triple.forecast.kind = "finite"
        /\ REq(triple.forecast.value, <<LsSlopeNum * t + LsInterceptNum, LsDet>>)
        /\ triple.lower_bound = Surd(triple.forecast.value, -2, LsResidualVariance)
        /\ triple.upper_bound = Surd(triple.forecast.value, 2, LsResidualVariance)
        /\ Ordered(triple)
        /\ LinearSeries =>
               /\ LsResidualVariance[1] = 0
               /\ triple.forecast.value[2] = 1
               /\ triple.forecast.value[1]
                      = prod_df.rows[1][column]
                          + t * (prod_df.rows[2][column] - prod_df.rows[1][column])

ForecastReturned == pc \in {"forecast_done", "raised"}

\* C18: on a table with the column the forecast has exactly horizon
\* triples, the k-th on the least-squares line at index n + k with bounds
\* forecast -+ 2 * residual std, so lower_bound <= forecast <= upper_bound,
\* and on an exactly linear series the residual std is 0 and the forecasts
\* continue the line; without rows or without the column it is empty.
C18_ForecastContract ==
    ForecastReturned =>
        /\ raised = "none"
        /\ IF HasSeries
           THEN /\ Len(forecast_df) = horizon
                /\ \A k \in 1..Len(forecast_df) :
                       forecast_df[k].forecast.kind = "finite" /\ TripleOnLine(k)
           ELSE forecast_df = <<>>

\* The same contract for every table but the single-row one.
ForecastContractFromTwoRows ==
    ForecastReturned /\ SeriesCount # 1 =>
        /\ raised = "none"
        /\ IF HasSeries
           THEN /\ Len(forecast_df) = horizon
                /\ \A k \in 1..Len(forecast_df) : TripleOnLine(k)
           ELSE forecast_df = <<>>

\* The series 5, 7, 9 (y = 2t + 5) was continued by 11, 13, ...
LinearForecastReached ==
    /\ pc = "forecast_done"
    /\ HasSeries
    /\ LinearSeries
    /\ SeriesCount = 3
    /\ prod_df.rows[1][column] = 5 /\ prod_df.rows[2][column] = 7
    /\ horizon = DefaultHorizon
    /\ Len(forecast_df) = DefaultHorizon
    /\ forecast_df[1] = [forecast |-> Finite(R(11)), lower_bound |-> Finite(R(11)),
                         upper_bound |-> Finite(R(11))]
    /\ forecast_df[12].forecast = Finite(R(33))

-----------------------------------------------------------------------------
(* Properties of transform_production_data.                                *)

ProductionTransformed == pc \in {"transform_supplier", "transformed"}

\* C19: a row with target_output 0 gets a defined efficiency (a number set
\* by policy, not the inf or nan of a division by zero) and nothing is
\* raised; every other row gets efficiency = actual_output / target_output
\* * 100 and output_gap = target_output - actual_output.
C19_ZeroTargetHandled ==
    ProductionTransformed /\ ~Empty(prod_df_raw) =>
        /\ raised = "none"
        /\ Len(prod_df.rows) = Len(prod_df_raw.rows)
        /\ \A i \in 1..Len(prod_df.rows) :
               LET target == prod_df_raw.rows[i]["target_output"]
                   actual == prod_df_raw.rows[i]["actual_output"]
                   efficiency == prod_df.rows[i]["efficiency"]
               IN  /\ efficiency.kind = "finite"
                   /\ prod_df.rows[i]["output_gap"] = target - actual
                   /\ target # 0 =>
                          efficiency.value[1] * target
                              = 100 * actual * efficiency.value[2]

\* The rows with a non-zero target_output are transformed as stated.
NonZeroTargetTransformed ==
    ProductionTransformed /\ ~Empty(prod_df_raw) =>
        /\ raised = "none"
        /\ Len(prod_df.rows) = Len(prod_df_raw.rows)
        /\ \A i \in 1..Len(prod_df.rows) :
               LET target == prod_df_raw.rows[i]["target_output"]
                   actual == prod_df_raw.rows[i]["actual_output"]
                   efficiency == prod_df.rows[i]["efficiency"]
               IN  /\ prod_df.rows[i]["output_gap"] = target - actual
                   /\ target # 0 =>
                          /\ efficiency.kind = "finite"
                          /\ efficiency.value[1] * target
                                 = 100 * actual * efficiency.value[2]
                   /\ target = 0 => efficiency.kind \in {"inf", "-inf", "nan"}

-----------------------------------------------------------------------------
(* dashboard_executive.py: one run of the dashboard script.  Streamlit     *)
(* runs the script from its first line whenever a widget changes or        *)
(* st.rerun() is called; st.rerun() and st.stop() end the run where they   *)
(* stand.  The toggle and the slider keep their values between runs, every *)
(* other name of the script is bound anew in each run.                     *)

FetchLimit == 100

SupplierFetchLimit == 50

ForecastMinRows == 20

MaxBlocks == 2

MaxCycleSupRows == 1

\* The production_data table of the database: record i, in the order of
\* recording, carries the timestamp of hour i.
ProductionRecord(i, actual) ==
    [machine_id |-> "M1", timestamp |-> <<1 + (i \div HoursPerDay), i % HoursPerDay>>,
     target_output |-> 100, actual_output |-> actual,
     temperature_c |-> 30, downtime_minutes |-> 0, speed_rpm |-> 10]

CycleProdCols == RawProdCols \cup {"temperature_c", "downtime_minutes", "speed_rpm"}

OutputLevels == {60, 90}

BlockSizes == {1, TrendWindow}

\* A history of output levels, each lasting k records.
ProductionTable(levels, k) ==
    [i \in 1..(Len(levels) * k) |-> ProductionRecord(i, levels[((i - 1) \div k) + 1])]

ProductionTables ==
    {ProductionTable(levels, k) : levels \in Seqs(OutputLevels, MaxBlocks), k \in BlockSizes}

SupplierTables ==
    Seqs({RawSupRow(<<10, 0>>, <<12, 0>>), RawSupRow(<<10, 0>>, <<10, 0>>)},
         MaxCycleSupRows)

\* .order("timestamp", desc=True): the latest record first.
OrderByTimestampDesc(records) ==
    SortedBy(records,
             [i \in 1..Len(records) |-> <<0 - ToDatetime(records[i]["timestamp"])[1]>>])

\* .limit(n)
Limit(records, n) == SubSeq(records, 1, IF Len(records) < n THEN Len(records) ELSE n)

\* pd.DataFrame(records): the columns are the keys of the records.
DataFrameOf(records, cols) == IF records = <<>> THEN NoData ELSE Frame(cols, records)

\* fetch_data: the two tables, latest record first.
fetch_data(production_data, supplier_data, prod_cols) ==
    [prod |-> DataFrameOf(Limit(OrderByTimestampDesc(production_data), FetchLimit),
                          prod_cols),
     sup |-> DataFrameOf(Limit(OrderByTimestampDesc(supplier_data), SupplierFetchLimit),
                         RawSupCols)]

\* The column lookups of transform_production_data: KeyError when the table
\* has rows and lacks a column.
TransformRaises(df) ==
    ~Empty(df) /\ ~({"timestamp", "target_output", "actual_output"} \subseteq df.cols)

\* The efficiency column as the numbers it holds: the records of the
\* database have target_output 100, so every efficiency is a whole number.
AsNumbers(df) ==
    IF "efficiency" \notin df.cols THEN df
    ELSE [cols |-> df.cols,
          rows |-> [i \in 1..Len(df.rows) |->
              [c \in df.cols |->
                  IF c = "efficiency"
                  THEN df.rows[i][c].value[1] \div df.rows[i][c].value[2]
                  ELSE df.rows[i][c]]]]

\* The functions of the summary, alert, analysis and forecast sections.
Computations ==
    {"calculate_system_health", "calculate_risk_index", "generate_alerts",
     "create_banner_message", "prioritize_alerts",
     "perform_root_cause_analysis", "forecast_metrics"}

InitCycle ==
    /\ prod_df = NoData
    /\ sup_df = NoData
    /\ sensitivity = <<3, 2>>
    /\ Idle
    /\ IdleDetection /\ IdleAnalysis /\ IdleWhatIf /\ IdleRaw /\ IdleForecasting
    /\ IdleCycle
    /\ pc = "sidebar"

\* A new run of the script: the widgets hold l and s, and c is the button
\* whose click started the run.
Rerun(l, s, c) ==
    /\ live_mode' = l
    /\ sensitivity' = s
    /\ clicked' = c
    /\ invoked' = {}
    /\ surfaced' = "none"
    /\ prod_df' = NoData
    /\ sup_df' = NoData
    /\ prod_df_raw' = NoData
    /\ sup_df_raw' = NoData
    /\ alerts' = <<>>
    /\ raised' = "none"
    /\ banner' = <<>>
    /\ prioritized' = <<>>
    /\ reprioritized' = <<>>
    /\ health_score' = DefaultHealth
    /\ risk_index' = DefaultRisk
    /\ root_causes' = <<>>
    /\ horizon' = 0
    /\ forecast_df' = <<>>
    /\ pc' = "sidebar"
    /\ UNCHANGED <<threshold, detection, whatif>>

\* The operator moves the toggle or the slider, or clicks a button; the
\* Reload button exists only under the waiting notice.
Interact ==
    \E l \in BOOLEAN, s \in Sensitivities, c \in {"none", "refresh", "reload"} :
        /\ l # live_mode \/ s # sensitivity \/ c # "none"
        /\ c # "none" => l = live_mode /\ s = sensitivity
        /\ c = "reload" => pc = "halted" /\ surfaced = "warning"
        /\ Rerun(l, s, c)

\* if st.sidebar.button("Refresh Data"): st.cache_data.clear(); st.rerun()
RefreshButton ==
    /\ pc = "sidebar"
    /\ IF clicked = "refresh"
       THEN Rerun(live_mode, sensitivity, "none")
       ELSE /\ pc' = "live"
            /\ UNCHANGED <<prod_df, sup_df, sensitivity, alerts, raised, banner,
                           prioritized, reprioritized, health_score, risk_index,
                           detection, analysis, whatif, raw, forecasting, cycle>>

\* if live_mode: time.sleep(3); st.rerun()
LiveRefresh ==
    /\ pc = "live"
    /\ IF live_mode
       THEN Rerun(live_mode, sensitivity, clicked)
       ELSE /\ pc' = "fetch"
            /\ UNCHANGED <<prod_df, sup_df, sensitivity, alerts, raised, banner,
                           prioritized, reprioritized, health_score, risk_index,
                           detection, analysis, whatif, raw, forecasting, cycle>>

\* Mutant: the run goes on after the error notice.
AfterTry_continue(failure) == "empty_check"

\* except Exception as e: st.error(...); st.stop()
AfterTry(failure) == IF failure = "none" THEN "empty_check" ELSE "halted"

\* The try block: fetch_data, transform_production_data,
\* transform_supplier_data.  The request to the database may fail, and the
\* production table may have lost a column.
FetchAndProcess ==
    /\ pc = "fetch"
    /\ \E production_data \in ProductionTables, supplier_data \in SupplierTables,
          request \in {"ok", "failed"}, missing \in {"none", "target_output"} :
           LET fetched == fetch_data(production_data, supplier_data,
                                     CycleProdCols \ {missing})
               failure == IF request = "failed" THEN "Exception"
                          ELSE IF TransformRaises(fetched.prod) THEN "KeyError"
                          ELSE "none"
           IN  /\ prod_df_raw' = IF request = "ok" THEN fetched.prod ELSE NoData
               /\ sup_df_raw' = IF request = "ok" THEN fetched.sup ELSE NoData
               /\ prod_df' = IF failure = "none"
                             THEN transform_production_data(fetched.prod)
                             ELSE NoData
               /\ sup_df' = IF failure = "none"
                            THEN transform_supplier_data(fetched.sup)
                            ELSE NoData
               /\ raised' = failure
               /\ surfaced' = IF failure = "none" THEN "none" ELSE "error"
               /\ invoked' = invoked \cup
                      (IF request = "failed" THEN {"fetch_data"}
                       ELSE IF failure = "KeyError"
                            THEN {"fetch_data", "transform_production_data"}
                       ELSE {"fetch_data", "transform_production_data",
                             "transform_supplier_data"})
               /\ pc' = AfterTry(failure)
    /\ UNCHANGED <<sensitivity, alerts, banner, prioritized, reprioritized,
                   health_score, risk_index, detection, analysis, whatif,
                   forecasting, live_mode, clicked>>

\* if prod_df.empty: st.warning(...); if st.button("Reload"): st.rerun();
\* st.stop()
AfterEmptyCheck(df, click) ==
    IF ~Empty(df) THEN "summary_health"
    ELSE IF click = "reload" THEN "sidebar"
    ELSE "halted"

WaitingForData ==
    /\ pc = "empty_check"
    /\ IF AfterEmptyCheck(prod_df, clicked) = "sidebar"
       THEN Rerun(live_mode, sensitivity, "none")
       ELSE /\ surfaced' = IF Empty(prod_df) THEN "warning" ELSE surfaced
            /\ pc' = AfterEmptyCheck(prod_df, clicked)
            /\ UNCHANGED <<prod_df, sup_df, sensitivity, alerts, raised, banner,
                           prioritized, reprioritized, health_score, risk_index,
                           detection, analysis, whatif, raw, forecasting,
                           live_mode, clicked, invoked>>

\* health_score = calculate_system_health(prod_df, sup_df)
SummaryHealth ==
    /\ pc = "summary_health"
    /\ health_score' = calculate_system_health(AsNumbers(prod_df), sup_df)
    /\ invoked' = invoked \cup {"calculate_system_health"}
    /\ pc' = "summary_risk"
    /\ UNCHANGED <<prod_df, sup_df, sensitivity, alerts, raised, banner,
                   prioritized, reprioritized, risk_index,
                   detection, analysis, whatif, raw, forecasting,
                   live_mode, clicked, surfaced>>

\* risk_index = calculate_risk_index(prod_df, sup_df)
SummaryRisk ==
    /\ pc = "summary_risk"
    /\ risk_index' = calculate_risk_index(AsNumbers(prod_df), sup_df)
    /\ invoked' = invoked \cup {"calculate_risk_index"}
    /\ pc' = "summary_alerts"
    /\ UNCHANGED <<prod_df, sup_df, sensitivity, alerts, raised, banner,
                   prioritized, reprioritized, health_score,
                   detection, analysis, whatif, raw, forecasting,
                   live_mode, clicked, surfaced>>

\* alerts = generate_alerts(prod_df, sup_df, sensitivity); an exception
\* outside the try block ends the run with Streamlit's traceback.
SummaryAlerts ==
    /\ pc = "summary_alerts"
    /\ invoked' = invoked \cup {"generate_alerts"}
    /\ IF GenerateAlertsRaises(AsNumbers(prod_df), sup_df)
       THEN /\ raised' = "KeyError"
            /\ surfaced' = "traceback"
            /\ pc' = "halted"
            /\ UNCHANGED alerts
       ELSE /\ alerts' = generate_alerts(AsNumbers(prod_df), sup_df, sensitivity)
            /\ pc' = "alert_banner"
            /\ UNCHANGED <<raised, surfaced>>
    /\ UNCHANGED <<prod_df, sup_df, sensitivity, banner, prioritized,
                   reprioritized, health_score, risk_index,
                   detection, analysis, whatif, raw, forecasting,
                   live_mode, clicked>>

CriticalCount(list) ==
    Cardinality({i \in 1..Len(list) : list[i]["severity"] = "CRITICAL"})

\* if critical_count > 0: banner = create_banner_message(alerts)
AlertBanner ==
    /\ pc = "alert_banner"
    /\ IF CriticalCount(alerts) > 0
       THEN /\ banner' = create_banner_message(alerts)
            /\ invoked' = invoked \cup {"create_banner_message"}
       ELSE UNCHANGED <<banner, invoked>>
    /\ pc' = "alert_table"
    /\ UNCHANGED <<prod_df, sup_df, sensitivity, alerts, raised, prioritized,
                   reprioritized, health_score, risk_index,
                   detection, analysis, whatif, raw, forecasting,
                   live_mode, clicked, surfaced>>

\* if alerts: for alert in prioritize_alerts(alerts): ...
AlertTable ==
    /\ pc = "alert_table"
    /\ IF alerts # <<>>
       THEN /\ prioritized' = prioritize_alerts(alerts)
            /\ invoked' = invoked \cup {"prioritize_alerts"}
       ELSE UNCHANGED <<prioritized, invoked>>
    /\ pc' = "analytics"
    /\ UNCHANGED <<prod_df, sup_df, sensitivity, alerts, raised, banner,
                   reprioritized, health_score, risk_index,
                   detection, analysis, whatif, raw, forecasting,
                   live_mode, clicked, surfaced>>

\* root_causes = perform_root_cause_analysis(prod_df, threshold=75.0)
DeepAnalytics ==
    /\ pc = "analytics"
    /\ root_causes' = perform_root_cause_analysis(AsNumbers(prod_df),
                                                  R(RcaDefaultThreshold))
    /\ invoked' = invoked \cup {"perform_root_cause_analysis"}
    /\ pc' = "forecast_section"
    /\ UNCHANGED <<prod_df, sup_df, sensitivity, alerts, raised, banner,
                   prioritized, reprioritized, health_score, risk_index,
                   threshold, detection, whatif, raw, forecasting,
                   live_mode, clicked, surfaced>>

\* if len(prod_df) >= 20:
\*     forecast_df = forecast_metrics(prod_df.tail(50), 'efficiency', horizon=12)
ForecastSection ==
    /\ pc = "forecast_section"
    /\ IF Len(prod_df.rows) >= ForecastMinRows
       THEN \E outcome \in forecast_metrics(TailRows(AsNumbers(prod_df), ForecastWindow),
                                            "efficiency", DefaultHorizon) :
                /\ forecast_df' = outcome.frame
                /\ horizon' = DefaultHorizon
                /\ raised' = outcome.raised
                /\ surfaced' = IF outcome.raised = "none" THEN surfaced ELSE "traceback"
                /\ pc' = IF outcome.raised = "none" THEN "run_done" ELSE "halted"
                /\ invoked' = invoked \cup {"forecast_metrics"}
       ELSE /\ pc' = "run_done"
            /\ UNCHANGED <<forecasting, raised, surfaced, invoked>>
    /\ UNCHANGED <<prod_df, sup_df, sensitivity, alerts, banner,
                   prioritized, reprioritized, health_score, risk_index,
                   detection, analysis, whatif, raw, live_mode, clicked>>

\* The steps of the script itself.
ScriptStep ==
    \/ RefreshButton
    \/ LiveRefresh
    \/ FetchAndProcess
    \/ WaitingForData
    \/ SummaryHealth
    \/ SummaryRisk
    \/ SummaryAlerts
    \/ AlertBanner
    \/ AlertTable
    \/ DeepAnalytics
    \/ ForecastSection

NextCycle ==
    \/ Interact
    \/ ScriptStep

SpecCycle == InitCycle /\ [][NextCycle]_vars

\* A run that nothing interrupts goes on to its next statement.
SpecCycleLive == InitCycle /\ [][NextCycle]_vars /\ WF_vars(ScriptStep)

-----------------------------------------------------------------------------
(* Claims about the refresh cycle.                                         *)

Fetched == "fetch_data" \in invoked

Recomputed ==
    {"calculate_system_health", "calculate_risk_index", "generate_alerts"}
        \subseteq invoked

\* C21: with live mode switched on, every run of the script reaches the
\* fetch and, when the fetch succeeds and the production table has rows,
\* the recomputation of health score, risk index and alerts, before it is
\* rerun.
C21_LiveRunFetchesAndRecomputes ==
    (pc = "sidebar" /\ live_mode) ~>
        (Fetched /\ (raised # "none" \/ Empty(prod_df) \/ Recomputed))

\* Once live mode is on, no run fetches until the operator intervenes.
LiveRunNeverFetches == live_mode => ~Fetched

\* A live run has come back to the first statement of the script.
LiveRerunReached == live_mode /\ pc = "sidebar" /\ clicked = "none"

\* Nothing of the summary, alert, analysis or forecast sections has run.
NothingComputed ==
    /\ invoked \cap Computations = {}
    /\ health_score = DefaultHealth
    /\ risk_index = DefaultRisk
    /\ alerts = <<>>
    /\ banner = <<>>
    /\ prioritized = <<>>
    /\ root_causes = <<>>
    /\ forecast_df = <<>>

\* C22: a cycle whose fetch or normalization fails shows the error and is
\* halted with none of calculate_system_health, calculate_risk_index,
\* generate_alerts, create_banner_message, root-cause analysis or forecast
\* invoked; a cycle whose normalized production table is empty shows the
\* waiting notice and stops before any score or alert is computed.
C22_FailedCycleComputesNothing ==
    /\ raised # "none" /\ invoked \cap Computations = {} => surfaced = "error"
    /\ surfaced = "error" => pc = "halted" /\ raised # "none" /\ NothingComputed
    /\ Fetched /\ raised = "none" /\ Empty(prod_df) /\ pc # "empty_check"
           => surfaced = "warning"
    /\ surfaced = "warning" => pc = "halted" /\ Empty(prod_df) /\ NothingComputed
    /\ invoked \cap Computations # {} => ~Empty(prod_df) /\ surfaced # "error"

\* The normalization failed on a table without target_output.
C22_Witness ==
    /\ pc = "halted"
    /\ surfaced = "error"
    /\ raised = "KeyError"
    /\ invoked = {"fetch_data", "transform_production_data"}

\* The fetch succeeded and the production table is empty.
C22_EmptyWitness ==
    /\ pc = "halted"
    /\ surfaced = "warning"
    /\ invoked = {"fetch_data", "transform_production_data", "transform_supplier_data"}
    /\ Len(sup_df.rows) = 1

\* The rows of the window the trend rule calls recent, and of the one it
\* calls older.
RecentWindow == {i \in 1..Len(prod_df.rows) : i > Len(prod_df.rows) - TrendWindow}

OlderWindow == {i \in 1..Len(prod_df.rows) : i <= TrendWindow}

TimestampOf(i) == prod_df.rows[i]["timestamp"][1]

EfficiencySum(window) ==
    SumSeq(Column(Where(AsNumbers(prod_df),
                        [i \in 1..Len(prod_df.rows) |-> i \in window]),
                  "efficiency"))

\* generate_alerts has run in this cycle on a table long enough for the
\* trend rule.
TrendRuleRan ==
    /\ "generate_alerts" \in invoked
    /\ raised = "none"
    /\ Len(prod_df.rows) >= TrendWindow

\* C23: in the refresh pipeline the records the trend rule treats as recent
\* are those with the latest timestamps and the records it treats as older
\* are those with the earliest, so the declining-trend alert fires only
\* when efficiency has fallen over time.
C23_TrendWindowsFollowTime ==
    TrendRuleRan =>
        /\ \A i \in RecentWindow, j \in (1..Len(prod_df.rows)) \ RecentWindow :
               TimestampOf(i) >= TimestampOf(j)
        /\ \A i \in OlderWindow, j \in (1..Len(prod_df.rows)) \ OlderWindow :
               TimestampOf(i) <= TimestampOf(j)
        /\ TrendAlertsOf(alerts) # <<>> =>
               \E i \in RecentWindow, j \in OlderWindow :
                   /\ TimestampOf(i) > TimestampOf(j)
                   /\ EfficiencySum(RecentWindow) < EfficiencySum(OlderWindow)

\* What the pipeline does: the table arrives latest record first, so the
\* window called recent holds the earliest records and the alert fires
\* only when efficiency has risen over time.
TrendWindowsReversed ==
    TrendRuleRan =>
        /\ \A i \in RecentWindow, j \in (1..Len(prod_df.rows)) \ RecentWindow :
               TimestampOf(i) < TimestampOf(j)
        /\ \A i \in OlderWindow, j \in (1..Len(prod_df.rows)) \ OlderWindow :
               TimestampOf(i) > TimestampOf(j)
        /\ TrendAlertsOf(alerts) # <<>> =>
               \A i \in RecentWindow \ OlderWindow, j \in OlderWindow \ RecentWindow :
                   TimestampOf(i) < TimestampOf(j)

\* Twenty records, efficiency 60 in the ten earliest and 90 in the ten
\* latest: the declining-trend alert is raised.
RisingEfficiencyAlerted ==
    /\ TrendRuleRan
    /\ Len(prod_df.rows) = 20
    /\ \A i \in 1..20 :
           AsNumbers(prod_df).rows[i]["efficiency"] = IF TimestampOf(i) > 34 THEN 90 ELSE 60
    /\ Len(TrendAlertsOf(alerts)) = 1

-----------------------------------------------------------------------------
\* The supplier table has the supply_risk column and no rows.
ZeroRowSupplier == sup_df.rows = <<>> /\ "supply_risk" \in sup_df.cols

\* C24: with a supplier table that has the supply_risk column and zero
\* rows, calculate_system_health includes the supply-chain component with
\* score 50, adding 0.2 * 50 = 10 to the health sum.
C24_ZeroRowSupplierScoresFifty ==
    pc # "health" /\ ZeroRowSupplier =>
        health_score = Round1(RAdd(HealthSum, R(10)))

\* What the function does: the zero-row table is empty, the component is
\* skipped, and the score is the one obtained without a supplier table.
ZeroRowSupplierSkipped ==
    pc # "health" /\ ZeroRowSupplier =>
        health_score = calculate_system_health(prod_df, NoData)

\* Two production rows and a zero-row supplier table: the score is the sum
\* of the production components, with nothing added.
ZeroRowSupplierScored ==
    /\ pc # "health"
    /\ ZeroRowSupplier
    /\ Len(prod_df.rows) = 2
    /\ ProdCols \subseteq prod_df.cols
    /\ health_score = Round1(HealthSum)
    /\ health_score # Round1(RAdd(HealthSum, R(10)))

-----------------------------------------------------------------------------
\* C25: in every list returned by generate_alerts each alert has severity
\* CRITICAL or WARNING and priority 1 or 2, CRITICAL iff priority 1 and
\* WARNING iff priority 2; so all CRITICAL alerts precede all WARNING
\* alerts, prioritize_alerts returns the list in the same order, and the
\* banner's primary focus is the first element of the list whenever a
\* CRITICAL alert exists.
C25_SeverityMatchesPriority ==
    pc \in {"banner", "prioritize", "reprioritize"} /\ raised = "none" =>
        /\ \A i \in 1..Len(alerts) :
               /\ alerts[i]["severity"] \in {"CRITICAL", "WARNING"}
               /\ alerts[i]["priority"] \in {1, 2}
               /\ alerts[i]["severity"] = "CRITICAL" <=> alerts[i]["priority"] = 1
               /\ alerts[i]["severity"] = "WARNING" <=> alerts[i]["priority"] = 2
        /\ \A i, j \in 1..Len(alerts) :
               alerts[i]["severity"] = "CRITICAL" /\ alerts[j]["severity"] = "WARNING"
                   => i < j
        /\ pc = "reprioritize" => prioritized = alerts
        /\ pc \in {"prioritize", "reprioritize"} /\ CriticalCount(alerts) > 0 =>
               /\ alerts[1]["severity"] = "CRITICAL"
               /\ banner[2].focus = alerts[1]["focus_area"]
               /\ banner[3].reason = alerts[1]["message"]

\* Two CRITICAL alerts of different rules and a WARNING behind them, with
\* the banner and the prioritized list computed.
C25_Witness ==
    /\ pc = "reprioritize"
    /\ raised = "none"
    /\ \E i, j, k \in 1..Len(alerts) :
           /\ alerts[i]["category"] = "Production" /\ alerts[i]["priority"] = 1
           /\ alerts[j]["category"] = "Supply Chain" /\ alerts[j]["priority"] = 1
           /\ alerts[k]["severity"] = "WARNING"
    /\ banner # <<>>
    /\ prioritized = alerts

-----------------------------------------------------------------------------
\* The normal group has rows and all of them have the same speed_rpm.
ZeroNormalSpread ==
    /\ NormalRows # {}
    /\ \A i, j \in NormalRows : prod_df.rows[i]["speed_rpm"] = prod_df.rows[j]["speed_rpm"]

\* C26: with a non-empty low-efficiency group and a normal group that is
\* empty or has zero RPM spread, perform_root_cause_analysis does not fail
\* and does not return an empty list: the result is the sentinel or at
\* least one factor entry, each with a finite contribution in [0, 100].
C26_DegenerateNormalGroupHandled ==
    pc = "root_cause_done" /\ LowRows # {} /\ (NormalRows = {} \/ ZeroNormalSpread) =>
        /\ raised = "none"
        /\ root_causes # <<>>
        /\ \A k \in 1..Len(root_causes) :
               IsSentinel(root_causes[k]) \/ ContributionInRange(root_causes[k].contribution)

\* What the function does when every row is below the threshold: the means
\* and the standard deviation of the empty normal group are NaN, every
\* comparison with NaN is False, and the list returned is empty.
AllLowReturnsEmptyList ==
    pc = "root_cause_done" /\ LowRows # {} /\ NormalRows = {} =>
        raised = "none" /\ root_causes = <<>>

\* Three rows, all below the threshold: the empty list is returned.
AllLowReached ==
    /\ pc = "root_cause_done"
    /\ Len(prod_df.rows) = 3
    /\ NormalRows = {}
    /\ root_causes = <<>>

\* A normal group of two rows with the same speed_rpm and a low group with
\* a spread: inf is cut to the contribution 100.
ZeroSpreadCapped ==
    /\ pc = "root_cause_done"
    /\ Cardinality(NormalRows) = 2
    /\ ZeroNormalSpread
    /\ \E k \in 1..Len(root_causes) :
           /\ root_causes[k].factor = "Speed Instability"
           /\ root_causes[k].contribution = Rational(Hundred)

====
